---- MODULE Spec2Model ----
(***************************************************************************)
(* Conway's Game of Life on a pointer based quad tree.                     *)
(*                                                                         *)
(* The model keeps the JavaScript objects in two heaps: QTNode objects     *)
(* are keyed by the id generateId() hands out, Cell objects by an          *)
(* allocation counter.  A QuadTree is a record holding its leaves (a       *)
(* sequence of Cell references) and its root (a QTNode reference).         *)
(***************************************************************************)
EXTENDS Integers, Sequences, FiniteSets, TLC

\* ------------------------------------------------------------------------
\* Bounds of the model
\* ------------------------------------------------------------------------
MaxCoord == 2
NegRange == 1
MaxCells == 2
MaxNegCells == 2
MaxDepth == 8
MaxWidth == 3
MaxHeight == 3
MaxArea == 9
MaxGenerations == 2
GameArea == 3
GameSide == 3
MaxSteps == 3
MaxCloneCells == 1
MaxCloneCoord == 1
MaxCloneSteps == 4
MaxDrawCoord == 1
MaxDrawSteps == 3
MaxRect == 2
MaxDupCoord == 1
MaxDupCells == 3

\* ------------------------------------------------------------------------
\* Values
\* ------------------------------------------------------------------------
NULL == -999
Infinity == 999
DEAD == 0
ALIVE == 1

NoRect == [x |-> NULL, y |-> NULL, xx |-> NULL, yy |-> NULL]

Abs(n) == IF n < 0 THEN -n ELSE n

\* Math.ceil(d / 2) for an integer d of either sign.
CeilHalf(d) == -((-d) \div 2)

Min(a, b) == IF a <= b THEN a ELSE b

Max(a, b) == IF a >= b THEN a ELSE b

\* ------------------------------------------------------------------------
\* Cell
\* ------------------------------------------------------------------------
Cell(row, col, age, state) ==
  [location |-> [row |-> row, col |-> col], age |-> age,
   width |-> 1, height |-> 1, state |-> state, traits |-> <<>>]

\* isInsideRect with the far edges left out.
CellIsInsideRectExclusive(cell, x, y, xx, yy) ==
  /\ x <= cell.location.row /\ cell.location.row < xx
  /\ y <= cell.location.col /\ cell.location.col < yy

CellIsInsideRect(cell, x, y, xx, yy) ==
  /\ x <= cell.location.row /\ cell.location.row <= xx
  /\ y <= cell.location.col /\ cell.location.col <= yy

DeadCell == Cell(Infinity, Infinity, 0, DEAD)

\* new Cell(...): the object is stored under the next free reference.
NewCell(h, cell) ==
  [h EXCEPT !.cells = [c \in DOMAIN h.cells \cup {h.cellCount} |->
                         IF c = h.cellCount THEN cell ELSE h.cells[c]],
            !.cellCount = h.cellCount + 1]

\* Cell.clone() that starts the copy at age 0.
CellCloneNewborn(cell) == Cell(cell.location.row, cell.location.col, 0, cell.state)

\* Cell.clone(): a new Cell built from row, col, age and state.
CellClone(cell) == Cell(cell.location.row, cell.location.col, cell.age, cell.state)

\* ------------------------------------------------------------------------
\* QTNode
\* ------------------------------------------------------------------------
NodeArea(rect) == (Abs(rect.xx) - Abs(rect.x)) * (Abs(rect.yy) - Abs(rect.y))

QTNode(id, x, y, xx, yy) ==
  [id |-> id, rect |-> [x |-> x, y |-> y, xx |-> xx, yy |-> yy],
   area |-> NodeArea([x |-> x, y |-> y, xx |-> xx, yy |-> yy]),
   subdivided |-> FALSE,
   upperLeft |-> NULL, upperRight |-> NULL, lowerLeft |-> NULL, lowerRight |-> NULL,
   index |-> NULL]

\* new QTNode(generateId(), x, y, xx, yy): generateId() returns idCount++.
NewNode(h, x, y, xx, yy) ==
  [h EXCEPT !.nodes = [n \in DOMAIN h.nodes \cup {h.idCount} |->
                         IF n = h.idCount THEN QTNode(h.idCount, x, y, xx, yy)
                         ELSE h.nodes[n]],
            !.idCount = h.idCount + 1]

NodeDestroy(node) ==
  [node EXCEPT !.id = NULL, !.rect = NoRect, !.area = NULL,
               !.upperLeft = NULL, !.upperRight = NULL,
               !.lowerLeft = NULL, !.lowerRight = NULL, !.index = NULL]

NodeChildren(node) ==
  IF node.subdivided
  THEN <<node.upperLeft, node.upperRight, node.lowerLeft, node.lowerRight>>
  ELSE <<>>

ContainsPoint(node, x, y) ==
  /\ node.rect.x <= x /\ x <= node.rect.xx
  /\ node.rect.y <= y /\ y <= node.rect.yy

ContainsRect(node, cell) ==
  /\ ContainsPoint(node, cell.location.row, cell.location.col)
  /\ ContainsPoint(node, cell.location.row + cell.width, cell.location.col + cell.height)

\* intersectsAABB with boxes that only touch counted as apart.
IntersectsAABBStrict(node, x, y, xx, yy) ==
  /\ node.rect.x < xx /\ node.rect.xx > x
  /\ node.rect.y < yy /\ node.rect.yy > y

IntersectsAABB(node, x, y, xx, yy) ==
  /\ node.rect.x <= xx /\ node.rect.xx >= x
  /\ node.rect.y <= yy /\ node.rect.yy >= y

\* setLeaf storing the position counted from one.
SetLeafOneBased(h, n, index) == [h EXCEPT !.nodes[n].index = index + 1]

\* setLeaf that keeps the index a node already has.
SetLeafOnce(h, n, index) ==
  IF h.nodes[n].index # NULL THEN h ELSE [h EXCEPT !.nodes[n].index = index]

SetLeaf(h, n, index) == [h EXCEPT !.nodes[n].index = index]

\* The four quadrants of subdivide(): r is this.rect, p and q the split
\* lines; the ids are the ones generateId() hands out, in order.
Quadrants(h, n, r, p, q) ==
  LET h1 == NewNode(h, r.x, r.y, p, q)
      h2 == NewNode(h1, p, r.y, r.xx, q)
      h3 == NewNode(h2, r.x, q, p, r.yy)
      h4 == NewNode(h3, p, q, r.xx, r.yy)
  IN [h4 EXCEPT !.nodes[n].upperLeft = h.idCount,
                !.nodes[n].upperRight = h.idCount + 1,
                !.nodes[n].lowerLeft = h.idCount + 2,
                !.nodes[n].lowerRight = h.idCount + 3,
                !.nodes[n].subdivided = TRUE]

Subdivide(h, n) ==
  IF h.nodes[n].subdivided THEN h
  ELSE Quadrants(h, n, h.nodes[n].rect,
         h.nodes[n].rect.x
           + CeilHalf(Abs(h.nodes[n].rect.xx) - Abs(h.nodes[n].rect.x)),
         h.nodes[n].rect.y
           + CeilHalf(Abs(h.nodes[n].rect.yy) - Abs(h.nodes[n].rect.y)))

\* ------------------------------------------------------------------------
\* Building the tree
\* ------------------------------------------------------------------------
EmptyAABB == [rowMin |-> 0, colMin |-> 0, rowMax |-> 0, colMax |-> 0]

RECURSIVE FoldAABB(_, _, _)
FoldAABB(cells, i, box) ==
  IF i > Len(cells) THEN box
  ELSE FoldAABB(cells, i + 1,
         [rowMin |-> Min(box.rowMin, cells[i].location.row),
          rowMax |-> Max(box.rowMax, cells[i].location.row),
          colMin |-> Min(box.colMin, cells[i].location.col),
          colMax |-> Max(box.colMax, cells[i].location.col)])

\* The bounding box without the extra row and column.
BuildAxisAlignedBoundingBoxTight(cells) ==
  FoldAABB(cells, 1,
    [rowMin |-> cells[1].location.row, rowMax |-> cells[1].location.row,
     colMin |-> cells[1].location.col, colMax |-> cells[1].location.col])

\* cells: a non-empty sequence of Cell values.
BuildAxisAlignedBoundingBox(cells) ==
  LET b == FoldAABB(cells, 1,
             [rowMin |-> cells[1].location.row, rowMax |-> cells[1].location.row,
              colMin |-> cells[1].location.col, colMax |-> cells[1].location.col])
  IN [rowMin |-> b.rowMin, colMin |-> b.colMin,
      rowMax |-> b.rowMax + 1, colMax |-> b.colMax + 1]

\* addCell: depth counts the frames of the recursion; a recursion deeper
\* than MaxDepth ends as the engine's stack overflow (h.overflow).
RECURSIVE AddCell(_, _, _, _, _, _)
RECURSIVE AddCellToChildren(_, _, _, _, _, _, _)
\* node.children().forEach(quadrant => addCell(..., quadrant, cell, index)),
\* i being the position in children().
AddCellToChildren(minimumCellSize, h, n, i, cell, index, depth) ==
  IF i > Len(NodeChildren(h.nodes[n])) THEN h
  ELSE AddCellToChildren(minimumCellSize,
         AddCell(minimumCellSize, h, NodeChildren(h.nodes[n])[i], cell, index, depth),
         n, i + 1, cell, index, depth)

AddCell(minimumCellSize, h, n, cell, index, depth) ==
  IF h.overflow THEN h
  ELSE IF depth > MaxDepth THEN [h EXCEPT !.overflow = TRUE]
  ELSE IF ~ContainsRect(h.nodes[n], cell) THEN h
  ELSE IF minimumCellSize >= h.nodes[n].area THEN SetLeaf(h, n, index)
  ELSE AddCellToChildren(minimumCellSize,
         IF ~h.nodes[n].subdivided THEN Subdivide(h, n) ELSE h,
         n, 1, cell, index, depth + 1)

\* validIndex with the last position left out.
ValidIndexShort(array, index) ==
  index # NULL /\ index >= 0 /\ index < Len(array) - 1

ValidIndex(array, index) ==
  index # NULL /\ index >= 0 /\ index <= Len(array) - 1

\* ------------------------------------------------------------------------
\* QuadTree
\* ------------------------------------------------------------------------
NoAABB == [rowMin |-> NULL, colMin |-> NULL, rowMax |-> NULL, colMax |-> NULL]

\* new QuadTree(liveCells); boundary is not set before the first index().
QuadTree(liveCells) ==
  [leaves |-> liveCells, root |-> NULL, minimumCellSize |-> 1, boundary |-> NoAABB]

QuadTreeEmpty == QuadTree(<<>>)

AliveCellsCount(t) == Len(t.leaves)

\* The Cell values the references of a leaves array point to.
CellsOf(h, leaves) == [i \in 1..Len(leaves) |-> h.cells[leaves[i]]]

RECURSIVE RecursiveDelete(_, _)
RECURSIVE DeleteChildren(_, _, _)
\* The four recursive calls of recursiveDelete, i being the child's position.
DeleteChildren(h, n, i) ==
  IF i > Len(NodeChildren(h.nodes[n])) THEN h
  ELSE DeleteChildren(RecursiveDelete(h, NodeChildren(h.nodes[n])[i]), n, i + 1)

RecursiveDelete(h, n) ==
  IF n = NULL THEN h
  ELSE [DeleteChildren(h, n, 1) EXCEPT !.nodes[n] = NodeDestroy(@)]

\* clear() that forgets to drop the root.
QuadTreeClearKeepsRoot(h, t) ==
  [h |-> RecursiveDelete(h, t.root), t |-> [t EXCEPT !.leaves = <<>>]]

\* clear() that destroys the nodes and keeps the leaves.
QuadTreeClearKeepsLeaves(h, t) ==
  [h |-> RecursiveDelete(h, t.root), t |-> [t EXCEPT !.root = NULL]]

\* Results of the operations that change a tree: the heap and the tree.
QuadTreeClear(h, t) ==
  [h |-> RecursiveDelete(h, t.root),
   t |-> [t EXCEPT !.root = NULL, !.leaves = <<>>]]

RECURSIVE AddCells(_, _, _, _)
AddCells(h, t, root, i) ==
  IF i > Len(t.leaves) THEN h
  ELSE AddCells(AddCell(t.minimumCellSize, h, root, h.cells[t.leaves[i]], i - 1, 1),
                t, root, i + 1)

\* index() once this.boundary is known: the root and the cells added to it.
IndexWithin(h, t, boundary) ==
  [h |-> AddCells(NewNode(h, boundary.rowMin, boundary.colMin,
                          boundary.rowMax, boundary.colMax),
                  t, h.idCount, 1),
   t |-> [t EXCEPT !.boundary = boundary, !.root = h.idCount]]

\* index() with no argument: rebuilds the tree from this.leaves.
QuadTreeIndex(h, t) ==
  IndexWithin(h, t, IF Len(t.leaves) > 0
                    THEN BuildAxisAlignedBoundingBox(CellsOf(h, t.leaves))
                    ELSE EmptyAABB)

\* index(liveCells) that ignores the list it is given.
QuadTreeIndexCellsIgnored(h, t, liveCells) == QuadTreeIndex(h, t)

\* index(liveCells): replaces this.leaves first.
QuadTreeIndexCells(h, t, liveCells) ==
  QuadTreeIndex(h, [t EXCEPT !.leaves = liveCells])

\* clone pushing the leaves themselves instead of their clones.
CloneCellsShared(h, leaves, i, clonedCells) == [h |-> h, cells |-> leaves]

RECURSIVE CloneCells(_, _, _, _)
CloneCells(h, leaves, i, clonedCells) ==
  IF i > Len(leaves) THEN [h |-> h, cells |-> clonedCells]
  ELSE CloneCells(NewCell(h, CellClone(h.cells[leaves[i]])), leaves, i + 1,
                  Append(clonedCells, h.cellCount))

QuadTreeClone(h, tree) ==
  LET c == CloneCells(h, tree.leaves, 1, <<>>)
  IN QuadTreeIndex(c.h, QuadTree(c.cells))

\* ------------------------------------------------------------------------
\* Queries.  A query returns a record: error is "none" or the error thrown.
\* ------------------------------------------------------------------------
NoError == "none"
SearchNullError == "Cannot search a null tree."
RangeNullError == "Cannot perform a range query on an empty node."
TypeError == "TypeError"
StackOverflow == "RangeError: Maximum call stack size exceeded"

\* The branch of search that compares with the other edge of the partition.
SearchBranchStrict(h, node, cell) ==
  IF cell.location.row + cell.width < h.nodes[node.upperLeft].rect.xx
  THEN IF cell.location.col + cell.height < h.nodes[node.upperLeft].rect.yy
       THEN node.upperLeft ELSE node.lowerLeft
  ELSE IF cell.location.col + cell.height < h.nodes[node.upperLeft].rect.yy
       THEN node.upperRight ELSE node.lowerRight

\* nextNode of search: the child chosen by comparing cellRightBoundary and
\* cellLowerBoundary with horizontalPartition and verticalPartition, the xx
\* and yy of the upperLeft child.
SearchBranch(h, node, cell) ==
  IF cell.location.row + cell.width <= h.nodes[node.upperLeft].rect.xx
  THEN IF cell.location.col + cell.height <= h.nodes[node.upperLeft].rect.yy
       THEN node.upperLeft ELSE node.lowerLeft
  ELSE IF cell.location.col + cell.height <= h.nodes[node.upperLeft].rect.yy
       THEN node.upperRight ELSE node.lowerRight

RECURSIVE Search(_, _, _, _)
Search(h, t, cell, currentNode) ==
  IF currentNode = NULL THEN [error |-> SearchNullError, node |-> NULL]
  ELSE
    LET node == h.nodes[currentNode] IN
    IF node.area = t.minimumCellSize
    THEN IF ContainsRect(node, cell) /\ node.index # NULL
         THEN [error |-> NoError, node |-> currentNode]
         ELSE [error |-> NoError, node |-> NULL]
    ELSE IF ~node.subdivided THEN [error |-> NoError, node |-> NULL]
    ELSE IF node.upperLeft = NULL THEN [error |-> TypeError, node |-> NULL]
    ELSE IF SearchBranch(h, node, cell) = NULL THEN [error |-> NoError, node |-> NULL]
    ELSE Search(h, t, cell, SearchBranch(h, node, cell))

\* search(cell) from the root.
QuadTreeSearch(h, t, cell) == Search(h, t, cell, t.root)

\* findCellIfAlive reading leaves without the test of the index.
IndexedCellUnchecked(h, t, found) ==
  IF found.error # NoError THEN [error |-> found.error, cell |-> DeadCell]
  ELSE IF found.node = NULL THEN [error |-> NoError, cell |-> DeadCell]
  ELSE IF ValidIndex(t.leaves, h.nodes[found.node].index)
       THEN [error |-> NoError, cell |-> h.cells[t.leaves[h.nodes[found.node].index + 1]]]
       ELSE [error |-> TypeError, cell |-> DeadCell]

\* The rest of findCellIfAlive, found being what search returned.
IndexedCell(h, t, found) ==
  IF found.error # NoError THEN [error |-> found.error, cell |-> DeadCell]
  ELSE IF found.node # NULL /\ ValidIndex(t.leaves, h.nodes[found.node].index)
       THEN [error |-> NoError, cell |-> h.cells[t.leaves[h.nodes[found.node].index + 1]]]
       ELSE [error |-> NoError, cell |-> DeadCell]

FindCellIfAlive(h, t, row, col) ==
  IndexedCell(h, t, QuadTreeSearch(h, t, Cell(row, col, 0, ALIVE)))

FirstError(e1, e2) == IF e1 # NoError THEN e1 ELSE e2

\* cells: the references of the cells found, in the order of the traversal.
RECURSIVE FindAliveInArea(_, _, _, _, _, _, _)
FindAliveInArea(h, t, x, y, xx, yy, currentNode) ==
  IF currentNode = NULL THEN [error |-> RangeNullError, cells |-> <<>>]
  ELSE
    LET node == h.nodes[currentNode] IN
    IF node.rect = NoRect THEN [error |-> TypeError, cells |-> <<>>]
    ELSE IF ~IntersectsAABB(node, x, y, xx, yy) THEN [error |-> NoError, cells |-> <<>>]
    ELSE IF node.subdivided
    THEN LET q1 == FindAliveInArea(h, t, x, y, xx, yy, node.upperLeft)
             q2 == FindAliveInArea(h, t, x, y, xx, yy, node.upperRight)
             q3 == FindAliveInArea(h, t, x, y, xx, yy, node.lowerLeft)
             q4 == FindAliveInArea(h, t, x, y, xx, yy, node.lowerRight)
             e  == FirstError(q1.error, FirstError(q2.error,
                                FirstError(q3.error, q4.error)))
         IN IF e # NoError THEN [error |-> e, cells |-> <<>>]
            ELSE [error |-> NoError,
                  cells |-> q1.cells \o q2.cells \o q3.cells \o q4.cells]
    ELSE IF ValidIndex(t.leaves, node.index)
            /\ CellIsInsideRect(h.cells[t.leaves[node.index + 1]], x, y, xx, yy)
         THEN [error |-> NoError, cells |-> <<t.leaves[node.index + 1]>>]
         ELSE [error |-> NoError, cells |-> <<>>]

\* findAliveInArea answering no cells where the root is null.
QuadTreeFindAliveInAreaOrNone(h, t, x, y, xx, yy) ==
  IF t.root = NULL THEN [error |-> NoError, cells |-> <<>>]
  ELSE FindAliveInArea(h, t, x, y, xx, yy, t.root)

\* findAliveInArea(x, y, xx, yy) from the root.
QuadTreeFindAliveInArea(h, t, x, y, xx, yy) ==
  FindAliveInArea(h, t, x, y, xx, yy, t.root)

\* The count without the test that leaves the cell itself out.
CountNeighborsWithSelf(h, aliveCells, row, col, i) == Len(aliveCells)

RECURSIVE CountNeighbors(_, _, _, _, _)
CountNeighbors(h, aliveCells, row, col, i) ==
  IF i > Len(aliveCells) THEN 0
  ELSE (IF ~(h.cells[aliveCells[i]].location.row = row
             /\ h.cells[aliveCells[i]].location.col = col)
        THEN 1 ELSE 0)
       + CountNeighbors(h, aliveCells, row, col, i + 1)

\* findAliveNeighbors with a range that stops at the cell's own row.
FindAliveNeighborsNarrow(h, tree, row, col) ==
  LET alive == QuadTreeFindAliveInArea(h, tree, row - 1, col - 1, row, col + 1)
  IN [error |-> alive.error,
      count |-> CountNeighbors(h, alive.cells, row, col, 1)]

FindAliveNeighbors(h, tree, row, col) ==
  LET range == [x |-> row - 1, y |-> col - 1, xx |-> row + 1, yy |-> col + 1]
      alive == QuadTreeFindAliveInArea(h, tree, range.x, range.y, range.xx, range.yy)
  IN [error |-> alive.error,
      count |-> CountNeighbors(h, alive.cells, row, col, 1)]

\* ------------------------------------------------------------------------
\* State
\* ------------------------------------------------------------------------
VARIABLES
  nodes,        \* heap of QTNode objects, by id
  idCount,      \* the counter of generateId()
  cellHeap,     \* heap of Cell objects, by reference
  cellCount,    \* the next free Cell reference
  config,       \* GameManager.config
  currentTree,  \* GameManager.currentTree
  nextTree,     \* GameManager.nextTree
  scene,        \* the arrays pushed to the scene handed to the last call
  drawingCells, \* DrawingStateManager.cells
  boxScene,     \* the arrays of boxes pushed to the scene handed to stageStorage
  controller,   \* the LifeSystemWorkerController, its LifeSystem and the messages sent
  startButton,  \* the StartButton element and the events it dispatched
  gridScene,    \* the entities GridBuilder pushed to the scene
  tree,         \* the QuadTree of the tree harness
  clonedTree,   \* the QuadTree returned by QuadTree.clone in the harness
  input,        \* the coordinates the harness built its cells from
  result,       \* what the last query returned
  lastOp,       \* the last operation and the one before it
  pre,          \* the trees as they were before the last operation
  error,        \* the error the last operation threw, or "none"
  steps         \* the number of operations so far

vars == <<nodes, idCount, cellHeap, cellCount, config, currentTree, nextTree,
          scene, drawingCells, boxScene, controller, startButton, gridScene, tree, clonedTree,
          input, result, lastOp, pre, error, steps>>

Heap == [nodes |-> nodes, idCount |-> idCount, cells |-> cellHeap,
         cellCount |-> cellCount, overflow |-> FALSE]

\* ------------------------------------------------------------------------
\* Reachability: objects no reference leads to are collected.
\* ------------------------------------------------------------------------
RECURSIVE NodesUnder(_, _)
NodesUnder(h, n) ==
  IF n = NULL THEN {}
  ELSE {n} \cup NodesUnder(h, h.nodes[n].upperLeft)
           \cup NodesUnder(h, h.nodes[n].upperRight)
           \cup NodesUnder(h, h.nodes[n].lowerLeft)
           \cup NodesUnder(h, h.nodes[n].lowerRight)

Range(seq) == {seq[i] : i \in 1..Len(seq)}

LiveNodes(h, trees) == UNION {NodesUnder(h, t.root) : t \in trees}

LiveCells(trees, arrays) ==
  UNION {Range(t.leaves) : t \in trees} \cup UNION {Range(a) : a \in arrays}

Collect(h, trees, arrays) ==
  [h EXCEPT !.nodes = [n \in LiveNodes(h, trees) |-> h.nodes[n]],
            !.cells = [c \in LiveCells(trees, arrays) |-> h.cells[c]]]

\* ------------------------------------------------------------------------
\* What a tree looks like from outside: the values of its leaves, in order,
\* and the nodes under its root.
\* ------------------------------------------------------------------------
Coord(cell) == <<cell.location.row, cell.location.col>>

Leaves(h, t) == CellsOf(h, t.leaves)

AliveSet(h, t) == {Coord(h.cells[c]) : c \in Range(t.leaves)}

AliveList(h, t) == [i \in 1..Len(t.leaves) |->
                      [coord |-> Coord(h.cells[t.leaves[i]]),
                       age |-> h.cells[t.leaves[i]].age]]

View(h, t) ==
  [leaves |-> Leaves(h, t), root |-> t.root, boundary |-> t.boundary,
   nodes |-> [n \in NodesUnder(h, t.root) |-> h.nodes[n]]]

Indexed(t) == t.root # NULL

\* ------------------------------------------------------------------------
\* Seeders and evaluators
\* ------------------------------------------------------------------------
\* QuadTreeSeeder.seed(width, height): births is the set of positions at
\* which randomAliveOrDead() returned 1; k walks x outer, y inner.
RECURSIVE QuadTreeSeederSeed(_, _, _, _, _, _)
QuadTreeSeederSeed(h, width, height, births, k, aliveCells) ==
  IF k >= width * height THEN [h |-> h, cells |-> aliveCells]
  ELSE
    LET x == k \div height
        y == k % height
    IN IF <<x, y>> \in births
       THEN QuadTreeSeederSeed(NewCell(h, Cell(x, y, 1, ALIVE)), width, height,
                               births, k + 1, Append(aliveCells, h.cellCount))
       ELSE QuadTreeSeederSeed(h, width, height, births, k + 1, aliveCells)

\* ArraySeeder.seed: makeCellsFrom2DArray(grid), one new Cell(row, col) for
\* every 1 of the grid, rows first; grid is given as the sequence of the
\* positions that hold a 1, in that order.
RECURSIVE ArraySeederSeed(_, _, _, _)
ArraySeederSeed(h, grid, i, cells) ==
  IF i > Len(grid) THEN [h |-> h, cells |-> cells]
  ELSE ArraySeederSeed(NewCell(h, Cell(grid[i][1], grid[i][2], 1, ALIVE)), grid,
                       i + 1, Append(cells, h.cellCount))

\* CellEvaluator.evaluate: the standard rules.
CellEvaluatorEvaluate(neighborsCount, currentCellState) ==
  IF \/ (currentCellState = ALIVE /\ neighborsCount \in {2, 3})
     \/ (currentCellState = DEAD /\ neighborsCount = 3)
  THEN ALIVE ELSE DEAD

AlwayAliveEvaluatorEvaluate(neighborsCount, currentCellState) == 1

Evaluators == {"CellEvaluator", "AlwayAliveEvaluator"}

\* An evaluator call that ignores the rules and answers alive.
EvaluateAlwaysAlive(evaluator, neighborsCount, currentCellState) == ALIVE

Evaluate(evaluator, neighborsCount, currentCellState) ==
  IF evaluator = "CellEvaluator"
  THEN CellEvaluatorEvaluate(neighborsCount, currentCellState)
  ELSE AlwayAliveEvaluatorEvaluate(neighborsCount, currentCellState)

\* ------------------------------------------------------------------------
\* GameManager
\* ------------------------------------------------------------------------
CellTraits == <<"GridCellToRenderingEntity", "ScaleTransformer",
                "ColorByAgeTrait", "CircleTrait">>

\* registerCellTraits: every cell registers the four traits, in order.
RegisterCellTraits(h, cells) ==
  [h EXCEPT !.cells = [c \in DOMAIN h.cells |->
      IF c \in Range(cells)
      THEN [h.cells[c] EXCEPT !.traits = h.cells[c].traits \o CellTraits]
      ELSE h.cells[c]]]

\* GameManager.seedWorld, given the list the seeder returned.
GameSeedWorld(h, current, next, aliveCells) ==
  LET c == QuadTreeIndexCells(h, current, aliveCells)
      n == QuadTreeIndex(c.h, next)
  IN [h |-> n.h, current |-> c.t, next |-> n.t]

\* Step 1 of evaluateCells: the scan of the landscape, position k being
\* (row, col) with row the outer loop.
RECURSIVE EvaluateScan(_, _, _, _, _, _)
RECURSIVE EvaluateAt(_, _, _, _, _, _, _, _)
\* The loop body pushing new Cell(col, row) where it should push (row, col).
EvaluateAtTransposed(h, cfg, current, evaluator, k, nextAliveCells, aliveNeighbors, foundCell) ==
  IF aliveNeighbors.error # NoError
  THEN [h |-> h, cells |-> nextAliveCells, error |-> aliveNeighbors.error]
  ELSE IF foundCell.error # NoError
  THEN [h |-> h, cells |-> nextAliveCells, error |-> foundCell.error]
  ELSE IF Evaluate(evaluator, aliveNeighbors.count, foundCell.cell.state) = ALIVE
  THEN EvaluateScan(NewCell(h, Cell(k % cfg.landscape.height,
                                    k \div cfg.landscape.height,
                                    foundCell.cell.age + 1, ALIVE)),
                    cfg, current, evaluator, k + 1,
                    Append(nextAliveCells, h.cellCount))
  ELSE EvaluateScan(h, cfg, current, evaluator, k + 1, nextAliveCells)

\* The body of the loops at position k, given what the two queries returned.
EvaluateAt(h, cfg, current, evaluator, k, nextAliveCells, aliveNeighbors, foundCell) ==
  IF aliveNeighbors.error # NoError
  THEN [h |-> h, cells |-> nextAliveCells, error |-> aliveNeighbors.error]
  ELSE IF foundCell.error # NoError
  THEN [h |-> h, cells |-> nextAliveCells, error |-> foundCell.error]
  ELSE IF Evaluate(evaluator, aliveNeighbors.count, foundCell.cell.state) = ALIVE
  THEN EvaluateScan(NewCell(h, Cell(k \div cfg.landscape.height,
                                    k % cfg.landscape.height,
                                    foundCell.cell.age + 1, ALIVE)),
                    cfg, current, evaluator, k + 1,
                    Append(nextAliveCells, h.cellCount))
  ELSE EvaluateScan(h, cfg, current, evaluator, k + 1, nextAliveCells)

EvaluateScan(h, cfg, current, evaluator, k, nextAliveCells) ==
  IF k >= cfg.landscape.width * cfg.landscape.height
  THEN [h |-> h, cells |-> nextAliveCells, error |-> NoError]
  ELSE EvaluateAt(h, cfg, current, evaluator, k, nextAliveCells,
         FindAliveNeighbors(h, current, k \div cfg.landscape.height,
                            k % cfg.landscape.height),
         FindCellIfAlive(h, current, k \div cfg.landscape.height,
                         k % cfg.landscape.height))

\* evaluateCells adding the new cells to the ones nextTree already holds.
StageNextAccumulating(h, current, next, s) ==
  IF s.error # NoError
  THEN [h |-> h, current |-> current, next |-> next, pushed |-> <<>>,
        error |-> s.error]
  ELSE
    LET i == QuadTreeIndexCells(s.h, next, next.leaves \o s.cells)
    IN [h |-> RegisterCellTraits(i.h, s.cells), current |-> current, next |-> i.t,
        pushed |-> <<s.cells>>, error |-> NoError]

\* Steps 2 and 3 of evaluateCells, s being the outcome of the scan: nextTree
\* is cleared and indexed from the new cells, which get their traits and go
\* to the scene.  An error of the scan leaves both trees alone.
StageNext(h, current, next, s) ==
  IF s.error # NoError
  THEN [h |-> h, current |-> current, next |-> next, pushed |-> <<>>,
        error |-> s.error]
  ELSE
    LET i == QuadTreeIndexCells(QuadTreeClear(s.h, next).h,
                                QuadTreeClear(s.h, next).t, s.cells)
    IN [h |-> RegisterCellTraits(i.h, s.cells), current |-> current, next |-> i.t,
        pushed |-> <<s.cells>>, error |-> NoError]

\* evaluateCells rebuilding currentTree where it should rebuild nextTree.
GameEvaluateCellsIntoCurrent(h, cfg, current, next, evaluator) ==
  LET r == StageNext(h, next, current,
                     EvaluateScan(h, cfg, current, evaluator, 0, <<>>))
  IN [r EXCEPT !.current = r.next, !.next = r.current]

\* GameManager.evaluateCells.
GameEvaluateCells(h, cfg, current, next, evaluator) ==
  StageNext(h, current, next, EvaluateScan(h, cfg, current, evaluator, 0, <<>>))

\* activateNext re-indexing nextTree without clearing it.
GameActivateNextKeepsNext(h, next) ==
  LET c == QuadTreeClone(h, next)
      i == QuadTreeIndex(c.h, next)
  IN [h |-> i.h, current |-> c.t, next |-> i.t]

\* GameManager.activateNext.
GameActivateNext(h, next) ==
  LET c == QuadTreeClone(h, next)
      d == QuadTreeClear(c.h, next)
      i == QuadTreeIndex(d.h, d.t)
  IN [h |-> i.h, current |-> c.t, next |-> i.t]

\* ------------------------------------------------------------------------
\* Bookkeeping shared by the actions
\* ------------------------------------------------------------------------
Commit(h, cur, nxt, tr, cl, sc) ==
  LET g == Collect(h, {cur, nxt, tr, cl}, Range(sc)) IN
  /\ nodes' = g.nodes
  /\ idCount' = g.idCount
  /\ cellHeap' = g.cells
  /\ cellCount' = g.cellCount
  /\ currentTree' = cur
  /\ nextTree' = nxt
  /\ tree' = tr
  /\ clonedTree' = cl
  /\ scene' = sc

ErrorOf(h) == IF h.overflow THEN StackOverflow ELSE NoError

Did(op, evaluator) ==
  /\ lastOp' = [op |-> op, evaluator |-> evaluator, prevOp |-> lastOp.op,
                prevEvaluator |-> lastOp.evaluator, prevError |-> error]
  /\ steps' = steps + 1

NoResult == [op |-> "none", args |-> <<>>, error |-> NoError, node |-> NULL,
             cells |-> <<>>, count |-> 0]

Snapshot ==
  [current |-> View(Heap, currentTree), next |-> View(Heap, nextTree),
   tree |-> View(Heap, tree), cloned |-> View(Heap, clonedTree),
   evaluated |-> pre.evaluated]

\* new LifeSystem(): no simulation is initialized and no generation was run.
LifeSystem == [initialized |-> FALSE, iterations |-> 0, alive |-> 0]

\* new LifeSystemWorkerController(worker), new StartButton() and new SceneManager().
InitPresentation ==
  /\ controller = [running |-> FALSE, lifeSystem |-> LifeSystem, sent |-> <<>>]
  /\ startButton = [state |-> "undefined", enabled |-> FALSE, dispatched |-> <<>>]
  /\ gridScene = [stack |-> <<>>, json |-> <<>>, rebuilt |-> <<>>]

InitWith(cfg) ==
  /\ nodes = <<>>
  /\ idCount = 0
  /\ cellHeap = <<>>
  /\ cellCount = 0
  /\ config = cfg
  /\ currentTree = QuadTreeEmpty
  /\ nextTree = QuadTreeEmpty
  /\ scene = <<>>
  /\ drawingCells = <<>>
  /\ boxScene = <<>>
  /\ InitPresentation
  /\ tree = QuadTreeEmpty
  /\ clonedTree = QuadTreeEmpty
  /\ input = <<>>
  /\ result = NoResult
  /\ lastOp = [op |-> "constructor", evaluator |-> "none", prevOp |-> "none",
               prevEvaluator |-> "none", prevError |-> NoError]
  /\ pre = [current |-> View([nodes |-> <<>>, cells |-> <<>>], QuadTreeEmpty),
            next |-> View([nodes |-> <<>>, cells |-> <<>>], QuadTreeEmpty),
            tree |-> View([nodes |-> <<>>, cells |-> <<>>], QuadTreeEmpty),
            cloned |-> View([nodes |-> <<>>, cells |-> <<>>], QuadTreeEmpty),
            evaluated |-> {}]
  /\ error = NoError
  /\ steps = 0

MakeConfig(width, height) == [landscape |-> [width |-> width, height |-> height]]

Grid(cfg) == (0..(cfg.landscape.width - 1)) \X (0..(cfg.landscape.height - 1))

\* ------------------------------------------------------------------------
\* The operations of the GameManager
\* ------------------------------------------------------------------------
\* mngr.seedWorld() with the QuadTreeSeeder drawing births.
SeedWorld(births) ==
  \E s \in {QuadTreeSeederSeed(Heap, config.landscape.width,
                                config.landscape.height, births, 0, <<>>)} :
  \E r \in {GameSeedWorld(s.h, currentTree, nextTree, s.cells)} :
     /\ Commit(r.h, r.current, r.next, tree, clonedTree, scene)
     /\ error' = ErrorOf(r.h)
     /\ input' = [i \in 1..Len(s.cells) |-> Coord(s.h.cells[s.cells[i]])]
     /\ pre' = Snapshot
     /\ Did("seedWorld", "none")
     /\ UNCHANGED <<controller, startButton, gridScene, drawingCells, boxScene, config, result>>

\* mngr.seedWorld(new ArraySeeder(grid)).
SeedWorldFromArray(grid) ==
  \E s \in {ArraySeederSeed(Heap, grid, 1, <<>>)} :
  \E r \in {GameSeedWorld(s.h, currentTree, nextTree, s.cells)} :
     /\ Commit(r.h, r.current, r.next, tree, clonedTree, scene)
     /\ error' = ErrorOf(r.h)
     /\ input' = grid
     /\ pre' = Snapshot
     /\ Did("seedWorld", "none")
     /\ UNCHANGED <<controller, startButton, gridScene, drawingCells, boxScene, config, result>>

\* mngr.evaluateCells(scene, evaluator) with an empty scene.
EvaluateCells(evaluator) ==
  \E r \in {GameEvaluateCells(Heap, config, currentTree, nextTree, evaluator)} :
     /\ Commit(r.h, r.current, r.next, tree, clonedTree,
               IF r.error = NoError THEN r.pushed ELSE scene)
     /\ error' = FirstError(r.error, ErrorOf(r.h))
     /\ pre' = [Snapshot EXCEPT !.evaluated = AliveSet(Heap, currentTree)]
     /\ Did("evaluateCells", evaluator)
     /\ UNCHANGED <<controller, startButton, gridScene, drawingCells, boxScene, config, input, result>>

\* mngr.activateNext().
ActivateNext ==
  \E r \in {GameActivateNext(Heap, nextTree)} :
     /\ Commit(r.h, r.current, r.next, tree, clonedTree, scene)
     /\ error' = ErrorOf(r.h)
     /\ pre' = Snapshot
     /\ Did("activateNext", "none")
     /\ UNCHANGED <<controller, startButton, gridScene, drawingCells, boxScene, config, input, result>>

\* ------------------------------------------------------------------------
\* One generation after another on every small landscape
\* ------------------------------------------------------------------------
Landscapes(width, height, area) ==
  {MakeConfig(w, h) : <<w, h>> \in
     {d \in (1..width) \X (1..height) : d[1] * d[2] <= area}}

InitStep == \E cfg \in Landscapes(MaxWidth, MaxHeight, MaxArea) : InitWith(cfg)

StepSeed ==
  /\ lastOp.op = "constructor"
  /\ \E births \in SUBSET Grid(config) : SeedWorld(births)

StepEvaluate ==
  /\ lastOp.op \in {"seedWorld", "activateNext"}
  /\ steps < 2 * MaxGenerations
  /\ EvaluateCells("CellEvaluator")

StepActivate ==
  /\ lastOp.op = "evaluateCells"
  /\ ActivateNext

NextStep == StepSeed \/ StepEvaluate \/ StepActivate

SpecStep == InitStep /\ [][NextStep]_vars

\* ------------------------------------------------------------------------
\* The operations of the GameManager in any order
\* ------------------------------------------------------------------------
\* The landscapes of the game: no side above GameSide, none taller than wide.
GameLandscapes ==
  {cfg \in Landscapes(GameSide, GameSide, GameArea) :
     cfg.landscape.height <= cfg.landscape.width}

InitGame == \E cfg \in GameLandscapes : InitWith(cfg)

GameSeed ==
  /\ steps < MaxSteps
  /\ \E births \in SUBSET Grid(config) : SeedWorld(births)

GameEvaluate ==
  /\ steps < MaxSteps
  /\ \E evaluator \in Evaluators : EvaluateCells(evaluator)

GameActivate ==
  /\ steps < MaxSteps
  /\ ActivateNext

NextGame == GameSeed \/ GameEvaluate \/ GameActivate

SpecGame == InitGame /\ [][NextGame]_vars

\* ------------------------------------------------------------------------
\* The block and the blinker on the 5x5 landscape
\* ------------------------------------------------------------------------
PatternSize == 5
PatternCycles == 100

Block == <<<<2, 2>>, <<2, 3>>, <<3, 2>>, <<3, 3>>>>

InitBlinker == <<<<1, 2>>, <<2, 2>>, <<3, 2>>>>

Blink == <<<<2, 1>>, <<2, 2>>, <<2, 3>>>>

InitPatterns == InitWith(MakeConfig(PatternSize, PatternSize))

PatternSeed ==
  /\ lastOp.op = "constructor"
  /\ \E grid \in {Block, InitBlinker} : SeedWorldFromArray(grid)

PatternEvaluate ==
  /\ lastOp.op \in {"seedWorld", "activateNext"}
  /\ steps < 2 * PatternCycles
  /\ EvaluateCells("CellEvaluator")

PatternActivate ==
  /\ lastOp.op = "evaluateCells"
  /\ ActivateNext

NextPatterns == PatternSeed \/ PatternEvaluate \/ PatternActivate

SpecPatterns == InitPatterns /\ [][NextPatterns]_vars

\* The number of evaluateCells + activateNext cycles completed since the seed.
Cycle == (steps - 1) \div 2

\* ------------------------------------------------------------------------
\* The tree harness: a tree is built from a list of cells and queried
\* ------------------------------------------------------------------------
\* The lists of at most n positions of P, no position twice.
Lists(P, n) ==
  {l \in UNION {[1..k -> P] : k \in 0..n} :
     \A i, j \in 1..Len(l) : i # j => l[i] # l[j]}

NonNegative == (0..MaxCoord) \X (0..MaxCoord)

AnySign == ((-NegRange)..MaxCoord) \X ((-NegRange)..MaxCoord)

TreeInputs == Lists(NonNegative, MaxCells)

SearchInputs == Lists(NonNegative, MaxCells) \cup Lists(AnySign, MaxNegCells)

QueryCoords == ((-NegRange) - 1)..(MaxCoord + 1)

BoxCoords == (-1)..(MaxCoord + 1)

\* The cells of a test: new Cell(row, col, 1) for every position of coords.
RECURSIVE MakeCells(_, _, _, _)
MakeCells(h, coords, i, cells) ==
  IF i > Len(coords) THEN [h |-> h, cells |-> cells]
  ELSE MakeCells(NewCell(h, Cell(coords[i][1], coords[i][2], 1, ALIVE)), coords,
                 i + 1, Append(cells, h.cellCount))

\* let tree = new QuadTree(cells); tree.index()
BuildTree(coords) ==
  \E m \in {MakeCells(Heap, coords, 1, <<>>)} :
  \E r \in {QuadTreeIndex(m.h, QuadTree(m.cells))} :
     /\ Commit(r.h, currentTree, nextTree, r.t, clonedTree, scene)
     /\ error' = ErrorOf(r.h)
     /\ input' = coords
     /\ pre' = Snapshot
     /\ Did("index", "none")
     /\ UNCHANGED <<controller, startButton, gridScene, drawingCells, boxScene, config, result>>

Queried(r) ==
  /\ result' = r
  /\ UNCHANGED <<nodes, idCount, cellHeap, cellCount, config, currentTree, nextTree,
                 scene, drawingCells, boxScene, controller, startButton, gridScene,
                 tree, clonedTree, input, lastOp, pre, error, steps>>

\* tree.search(new Cell(row, col))
TreeSearch(row, col) ==
  \E r \in {QuadTreeSearch(Heap, tree, Cell(row, col, 0, ALIVE))} :
     Queried([NoResult EXCEPT !.op = "search", !.args = <<row, col>>,
                              !.error = r.error, !.node = r.node])

\* tree.findAliveInArea(x, y, xx, yy)
TreeFindAliveInArea(x, y, xx, yy) ==
  \E r \in {QuadTreeFindAliveInArea(Heap, tree, x, y, xx, yy)} :
     Queried([NoResult EXCEPT !.op = "findAliveInArea", !.args = <<x, y, xx, yy>>,
                              !.error = r.error, !.cells = r.cells])

\* findAliveNeighbors(tree, row, col)
TreeFindAliveNeighbors(row, col) ==
  \E r \in {FindAliveNeighbors(Heap, tree, row, col)} :
     Queried([NoResult EXCEPT !.op = "findAliveNeighbors", !.args = <<row, col>>,
                              !.error = r.error, !.count = r.count])

InitTree == InitWith(MakeConfig(0, 0))

TreeBuild ==
  /\ lastOp.op = "constructor"
  /\ \E coords \in TreeInputs : BuildTree(coords)

\* The queries change nothing, so each is asked of the tree as it was built.
TreeBuilt == lastOp.op = "index" /\ error = NoError /\ result.op = "none"

TreeRanges ==
  /\ TreeBuilt
  /\ \E x, y, xx, yy \in BoxCoords :
       x <= xx /\ y <= yy /\ TreeFindAliveInArea(x, y, xx, yy)

TreeNeighbors ==
  /\ TreeBuilt
  /\ \E row, col \in BoxCoords : TreeFindAliveNeighbors(row, col)

NextTree == TreeBuild \/ TreeRanges \/ TreeNeighbors

SpecTree == InitTree /\ [][NextTree]_vars

\* ------------------------------------------------------------------------
\* The search harness: the cells may lie on either side of the origin
\* ------------------------------------------------------------------------
InitSearch == InitWith(MakeConfig(0, 0))

SearchBuild ==
  /\ lastOp.op = "constructor"
  /\ \E coords \in SearchInputs : BuildTree(coords)

TreeSearches ==
  /\ TreeBuilt
  /\ \E row, col \in QueryCoords : TreeSearch(row, col)

NextSearch == SearchBuild \/ TreeSearches

SpecSearch == InitSearch /\ [][NextSearch]_vars

\* ------------------------------------------------------------------------
\* The clone harness: a tree is cloned, then the original is changed
\* ------------------------------------------------------------------------
\* A caller ages a cell of the tree (cell.age++) or marks it dead.
MutateCell(i, field) ==
  LET c == tree.leaves[i]
      h == [Heap EXCEPT !.cells[c] =
              IF field = "age" THEN [@ EXCEPT !.age = @ + 1]
              ELSE [@ EXCEPT !.state = DEAD]]
  IN /\ Commit(h, currentTree, nextTree, tree, clonedTree, scene)
     /\ error' = NoError
     /\ pre' = Snapshot
     /\ Did("mutate", "none")
     /\ UNCHANGED <<controller, startButton, gridScene, drawingCells, boxScene, config, input, result>>

\* clonedTree = QuadTree.clone(tree)
CloneTree ==
  \E r \in {QuadTreeClone(Heap, tree)} :
     /\ Commit(r.h, currentTree, nextTree, tree, r.t, scene)
     /\ error' = ErrorOf(r.h)
     /\ pre' = Snapshot
     /\ Did("clone", "none")
     /\ UNCHANGED <<controller, startButton, gridScene, drawingCells, boxScene, config, input, result>>

\* tree.clear()
ClearTree ==
  \E r \in {QuadTreeClear(Heap, tree)} :
     /\ Commit(r.h, currentTree, nextTree, r.t, clonedTree, scene)
     /\ error' = ErrorOf(r.h)
     /\ pre' = Snapshot
     /\ Did("clear", "none")
     /\ UNCHANGED <<controller, startButton, gridScene, drawingCells, boxScene, config, input, result>>

\* tree.index(cells) with new cells
ReindexTree(coords) ==
  \E m \in {MakeCells(Heap, coords, 1, <<>>)} :
  \E r \in {QuadTreeIndexCells(m.h, tree, m.cells)} :
     /\ Commit(r.h, currentTree, nextTree, r.t, clonedTree, scene)
     /\ error' = ErrorOf(r.h)
     /\ input' = coords
     /\ pre' = Snapshot
     /\ Did("reindex", "none")
     /\ UNCHANGED <<controller, startButton, gridScene, drawingCells, boxScene, config, result>>

CloneCoords == (0..MaxCloneCoord) \X (0..MaxCloneCoord)

InitClone == InitWith(MakeConfig(0, 0))

\* A query ends a run: it is asked of the tree as the operations left it.
Unqueried == result.op = "none"

CloneBuild ==
  /\ lastOp.op = "constructor"
  /\ Unqueried
  /\ \E coords \in Lists(CloneCoords, MaxCloneCells) : BuildTree(coords)

CloneMutate ==
  /\ lastOp.op # "constructor"
  /\ Unqueried
  /\ steps < MaxCloneSteps
  /\ \E i \in 1..Len(tree.leaves), field \in {"age", "state"} : MutateCell(i, field)

CloneClone ==
  /\ lastOp.op \in {"index", "mutate"}
  /\ Unqueried
  /\ ~Indexed(clonedTree)
  /\ steps < MaxCloneSteps
  /\ CloneTree

CloneClear ==
  /\ Indexed(clonedTree)
  /\ Unqueried
  /\ steps < MaxCloneSteps
  /\ ClearTree

CloneReindex ==
  /\ Indexed(clonedTree)
  /\ Unqueried
  /\ steps < MaxCloneSteps
  /\ \E coords \in Lists(CloneCoords, 1) : ReindexTree(coords)

\* tree.search(cell) on the new, the indexed and the cleared tree.
CloneSearch ==
  /\ lastOp.op \in {"constructor", "index", "clear", "reindex"}
  /\ Unqueried
  /\ steps < MaxCloneSteps
  /\ \E p \in CloneCoords : TreeSearch(p[1], p[2])

\* tree.findAliveInArea(0, 0, xx, yy) on the new, the indexed and the cleared tree.
CloneRange ==
  /\ lastOp.op \in {"constructor", "index", "clear", "reindex"}
  /\ Unqueried
  /\ steps < MaxCloneSteps
  /\ \E p \in CloneCoords : TreeFindAliveInArea(0, 0, p[1], p[2])

NextClone ==
  \/ CloneBuild \/ CloneMutate \/ CloneClone \/ CloneClear \/ CloneReindex
  \/ CloneSearch \/ CloneRange

SpecClone == InitClone /\ [][NextClone]_vars

\* ------------------------------------------------------------------------
\* DrawingStateManager
\* ------------------------------------------------------------------------
\* array.splice(0, 1), whatever the index.
SpliceFirst(array, index) == SubSeq(array, 2, Len(array))

\* array.splice(index, 1)
Splice(array, index) ==
  IF index < Len(array)
  THEN SubSeq(array, 1, index) \o SubSeq(array, index + 2, Len(array))
  ELSE array

\* The branch of toggleCell on what search returned: a new Cell(x, y, 1) is
\* pushed to this.cells, or the cell at node.index is spliced out of it.
ToggledCells(h, cells, found, x, y) ==
  IF found.node = NULL
  THEN [h |-> NewCell(h, Cell(x, y, 1, ALIVE)), cells |-> Append(cells, h.cellCount)]
  ELSE [h |-> h, cells |-> Splice(cells, h.nodes[found.node].index)]

Box(x, y, xx, yy, alive) ==
  [x |-> x, y |-> y, xx |-> xx, yy |-> yy, alive |-> alive, traits |-> <<>>]

RECURSIVE CollectBoxes(_, _, _)
RECURSIVE CollectChildBoxes(_, _, _, _)
\* The forEach of collectBoxes over currentNode.children().
CollectChildBoxes(h, children, i, boxes) ==
  IF i > Len(children) THEN boxes
  ELSE CollectChildBoxes(h, children, i + 1, CollectBoxes(h, children[i], boxes))

CollectBoxes(h, currentNode, boxes) ==
  CollectChildBoxes(h, NodeChildren(h.nodes[currentNode]), 1,
    Append(boxes, Box(h.nodes[currentNode].rect.x, h.nodes[currentNode].rect.y,
                      h.nodes[currentNode].rect.xx, h.nodes[currentNode].rect.yy,
                      h.nodes[currentNode].index # NULL)))

BoxTraits == <<"ProcessBoxAsRect", "ScaleTransformer", "ColorByContents", "RectTrait">>

RegisterBoxTraits(boxes) ==
  [i \in 1..Len(boxes) |-> [boxes[i] EXCEPT !.traits = @ \o BoxTraits]]

ReferenceError == "ReferenceError: config is not defined"

\* What stageStorage pushes to the scene and what it throws.  The name config
\* in its body is bound by no declaration of the module: it is looked up on
\* the global object, where the embedding program has defined it or has not.
DrawingStageStorage(h, current, display, globalConfig) ==
  IF ~display THEN [pushed |-> <<>>, error |-> NoError]
  ELSE IF ~globalConfig THEN [pushed |-> <<>>, error |-> ReferenceError]
  ELSE [pushed |-> <<RegisterBoxTraits(CollectBoxes(h, current.root, <<>>))>>,
        error |-> NoError]

DrawingCommit(h, cur, nxt, cells, boxes) ==
  \E g \in {Collect(h, {cur, nxt}, {cells})} :
  /\ nodes' = g.nodes
  /\ idCount' = g.idCount
  /\ cellHeap' = g.cells
  /\ cellCount' = g.cellCount
  /\ currentTree' = cur
  /\ nextTree' = nxt
  /\ drawingCells' = cells
  /\ boxScene' = boxes
  /\ UNCHANGED <<scene, tree, clonedTree, controller, startButton, gridScene>>

\* new DrawingStateManager(config)
InitDrawing ==
  \E r \in {QuadTreeIndexCells([nodes |-> <<>>, idCount |-> 0, cells |-> <<>>,
                                cellCount |-> 0, overflow |-> FALSE],
                               QuadTreeEmpty, <<>>)} :
  /\ nodes = r.h.nodes
  /\ idCount = r.h.idCount
  /\ cellHeap = r.h.cells
  /\ cellCount = r.h.cellCount
  /\ config = MakeConfig(MaxDrawCoord + 1, MaxDrawCoord + 1)
  /\ currentTree = r.t
  /\ nextTree = QuadTreeEmpty
  /\ scene = <<>>
  /\ drawingCells = <<>>
  /\ boxScene = <<>>
  /\ InitPresentation
  /\ tree = QuadTreeEmpty
  /\ clonedTree = QuadTreeEmpty
  /\ input = <<>>
  /\ result = NoResult
  /\ lastOp = [op |-> "constructor", evaluator |-> "none", prevOp |-> "none",
               prevEvaluator |-> "none", prevError |-> NoError]
  /\ pre = [current |-> View([nodes |-> <<>>, cells |-> <<>>], QuadTreeEmpty),
            next |-> View([nodes |-> <<>>, cells |-> <<>>], QuadTreeEmpty),
            tree |-> View([nodes |-> <<>>, cells |-> <<>>], QuadTreeEmpty),
            cloned |-> View([nodes |-> <<>>, cells |-> <<>>], QuadTreeEmpty),
            evaluated |-> {}]
  /\ error = NoError
  /\ steps = 0

\* mngr.toggleCell(x, y)
ToggleCell(x, y) ==
  \E found \in {QuadTreeSearch(Heap, currentTree, Cell(x, y, 0, ALIVE))} :
  \E u \in {ToggledCells(Heap, drawingCells, found, x, y)} :
  \E c \in {QuadTreeClear(u.h, nextTree)} :
  \E i \in {QuadTreeIndexCells(c.h, c.t, u.cells)} :
  \E r \in {GameActivateNext(i.h, i.t)} :
     /\ IF found.error # NoError
        THEN /\ UNCHANGED <<nodes, idCount, cellHeap, cellCount, currentTree,
                            nextTree, scene, tree, clonedTree, drawingCells, boxScene,
                            controller, startButton, gridScene>>
             /\ error' = found.error
        ELSE /\ DrawingCommit(r.h, r.current, r.next, u.cells, boxScene)
             /\ error' = ErrorOf(r.h)
     /\ input' = Append(input, <<x, y>>)
     /\ pre' = Snapshot
     /\ Did("toggleCell", "none")
     /\ UNCHANGED <<config, result>>

\* mngr.activateNext()
DrawingActivateNext ==
  \E r \in {GameActivateNext(Heap, nextTree)} :
     /\ DrawingCommit(r.h, r.current, r.next, drawingCells, boxScene)
     /\ error' = ErrorOf(r.h)
     /\ pre' = Snapshot
     /\ Did("activateNext", "none")
     /\ UNCHANGED <<config, input, result>>

\* mngr.clear()
DrawingClear ==
  \E c \in {QuadTreeClear(Heap, currentTree)} :
  \E ci \in {QuadTreeIndex(c.h, c.t)} :
  \E n \in {QuadTreeClear(ci.h, nextTree)} :
  \E ni \in {QuadTreeIndex(n.h, n.t)} :
     /\ DrawingCommit(ni.h, ci.t, ni.t, <<>>, boxScene)
     /\ error' = ErrorOf(ni.h)
     /\ pre' = Snapshot
     /\ input' = <<>>
     /\ Did("clear", "none")
     /\ UNCHANGED <<config, result>>

\* mngr.stageStorage(scene, display) with a new, empty scene
StageStorage(display, globalConfig) ==
  \E r \in {DrawingStageStorage(Heap, currentTree, display, globalConfig)} :
     /\ DrawingCommit(Heap, currentTree, nextTree, drawingCells, r.pushed)
     /\ error' = r.error
     /\ result' = [NoResult EXCEPT !.op = "stageStorage", !.args = <<display>>,
                                   !.error = r.error]
     /\ pre' = Snapshot
     /\ Did("stageStorage", "none")
     /\ UNCHANGED <<config, input>>

DrawToggle ==
  /\ steps < MaxDrawSteps
  /\ \E x, y \in 0..MaxDrawCoord : ToggleCell(x, y)

DrawActivate == steps < MaxDrawSteps /\ DrawingActivateNext

DrawClear == steps < MaxDrawSteps /\ DrawingClear

DrawStage ==
  /\ steps < MaxDrawSteps + 1
  /\ lastOp.op # "stageStorage"
  /\ \E display, globalConfig \in BOOLEAN : StageStorage(display, globalConfig)

NextDrawing == DrawToggle \/ DrawActivate \/ DrawClear \/ DrawStage

SpecDrawing == InitDrawing /\ [][NextDrawing]_vars

\* The drawing orchestrator driven by toggleCell and clear alone; input holds
\* the positions toggled since construction or the last clear.
MaxToggles == 3

TogglePosition ==
  /\ steps < MaxToggles
  /\ \E x, y \in 0..MaxDrawCoord : ToggleCell(x, y)

ToggleClear == steps < MaxToggles /\ DrawingClear

NextToggle == TogglePosition \/ ToggleClear

SpecToggle == InitDrawing /\ [][NextToggle]_vars

\* ------------------------------------------------------------------------
\* The subdivide harness: one node of any small rectangle, subdivided once
\* ------------------------------------------------------------------------
RectCoords == (-MaxRect)..MaxRect

\* let node = new QTNode(generateId(), x, y, xx, yy)
InitSubdivide ==
  \E x, y, xx, yy \in RectCoords :
  \E h \in {NewNode([nodes |-> <<>>, idCount |-> 0, cells |-> <<>>,
                     cellCount |-> 0, overflow |-> FALSE], x, y, xx, yy)} :
  /\ x <= xx /\ y <= yy
  /\ nodes = h.nodes
  /\ idCount = h.idCount
  /\ cellHeap = h.cells
  /\ cellCount = h.cellCount
  /\ config = MakeConfig(0, 0)
  /\ currentTree = QuadTreeEmpty
  /\ nextTree = QuadTreeEmpty
  /\ scene = <<>>
  /\ drawingCells = <<>>
  /\ boxScene = <<>>
  /\ InitPresentation
  /\ tree = [QuadTreeEmpty EXCEPT !.root = 0]
  /\ clonedTree = QuadTreeEmpty
  /\ input = <<>>
  /\ result = NoResult
  /\ lastOp = [op |-> "constructor", evaluator |-> "none", prevOp |-> "none",
               prevEvaluator |-> "none", prevError |-> NoError]
  /\ pre = [current |-> View([nodes |-> <<>>, cells |-> <<>>], QuadTreeEmpty),
            next |-> View([nodes |-> <<>>, cells |-> <<>>], QuadTreeEmpty),
            tree |-> View([nodes |-> <<>>, cells |-> <<>>], QuadTreeEmpty),
            cloned |-> View([nodes |-> <<>>, cells |-> <<>>], QuadTreeEmpty),
            evaluated |-> {}]
  /\ error = NoError
  /\ steps = 0

\* node.subdivide()
SubdivideNode ==
  /\ lastOp.op = "constructor"
  /\ \E h \in {Subdivide(Heap, tree.root)} :
       /\ Commit(h, currentTree, nextTree, tree, clonedTree, scene)
       /\ error' = ErrorOf(h)
       /\ pre' = Snapshot
       /\ Did("subdivide", "none")
       /\ UNCHANGED <<controller, startButton, gridScene, drawingCells, boxScene, config, input, result>>

\* a second node.subdivide(), which returns at once
SubdivideAgain ==
  /\ lastOp.op = "subdivide"
  /\ lastOp.prevOp = "constructor"
  /\ \E h \in {Subdivide(Heap, tree.root)} :
       /\ Commit(h, currentTree, nextTree, tree, clonedTree, scene)
       /\ error' = ErrorOf(h)
       /\ pre' = Snapshot
       /\ Did("subdivide", "none")
       /\ UNCHANGED <<controller, startButton, gridScene, drawingCells, boxScene, config, input, result>>

NextSubdivide == SubdivideNode \/ SubdivideAgain

SpecSubdivide == InitSubdivide /\ [][NextSubdivide]_vars

\* ------------------------------------------------------------------------
\* The duplicates harness: lists in which a position may occur again
\* ------------------------------------------------------------------------
DupCoords == (0..MaxDupCoord) \X (0..MaxDupCoord)

\* All lists of at most n positions, repetitions allowed.
ListsWithRepeats(P, n) == UNION {[1..k -> P] : k \in 0..n}

InitDuplicates == InitWith(MakeConfig(0, 0))

DupBuild ==
  /\ lastOp.op = "constructor"
  /\ \E coords \in ListsWithRepeats(DupCoords, MaxDupCells) : BuildTree(coords)

DupSearch ==
  /\ TreeBuilt
  /\ \E p \in DupCoords : TreeSearch(p[1], p[2])

DupRange ==
  /\ TreeBuilt
  /\ \E p \in DupCoords : TreeFindAliveInArea(0, 0, p[1], p[2])

NextDuplicates == DupBuild \/ DupSearch \/ DupRange

SpecDuplicates == InitDuplicates /\ [][NextDuplicates]_vars

\* ------------------------------------------------------------------------
\* The stale-index harness: leaves is shortened after the tree was indexed
\* ------------------------------------------------------------------------
\* A caller drops the last k cells of tree.leaves and does not index again.
ShrinkLeaves(k) ==
  /\ Commit(Heap, currentTree, nextTree,
            [tree EXCEPT !.leaves = SubSeq(tree.leaves, 1, Len(tree.leaves) - k)],
            clonedTree, scene)
  /\ error' = NoError
  /\ pre' = Snapshot
  /\ Did("shrink", "none")
  /\ UNCHANGED <<controller, startButton, gridScene, drawingCells, boxScene, config, input, result>>

InitStale == InitWith(MakeConfig(0, 0))

StaleBuild ==
  /\ lastOp.op = "constructor"
  /\ \E coords \in Lists(DupCoords, MaxDupCells) : BuildTree(coords)

StaleShrink ==
  /\ lastOp.op = "index"
  /\ Unqueried
  /\ \E k \in 1..Len(tree.leaves) : ShrinkLeaves(k)

StaleRange ==
  /\ lastOp.op \in {"index", "shrink"}
  /\ Unqueried
  /\ \E p \in DupCoords : TreeFindAliveInArea(0, 0, p[1], p[2])

NextStale == StaleBuild \/ StaleShrink \/ StaleRange

SpecStale == InitStale /\ [][NextStale]_vars

\* ------------------------------------------------------------------------
\* LifeSystemWorkerController
\* ------------------------------------------------------------------------
MaxAlive == 2
MaxMessages == 4

\* The variables the controller does not touch.
gameVars == <<nodes, idCount, cellHeap, cellCount, config, currentTree, nextTree, scene,
              drawingCells, boxScene, tree, clonedTree, input, result, pre, error>>

\* AbstractWorkerController.systemRunning()
SystemRunning(c) == c.running

\* AbstractWorkerController.stop()
Stop(c) == [c EXCEPT !.running = FALSE]

\* LifeSystem.canUpdate()
CanUpdate(ls) == ls.initialized

\* LifeSystem.update(): one generation is evaluated and activated; alive is
\* the number of cells the generation leaves alive.
Update(ls, alive) == [ls EXCEPT !.iterations = ls.iterations + 1, !.alive = alive]

\* LifeSystem.setConfig(config).setSeeder(seeder).initializeSimulation()
InitializeSimulation(ls, alive) == [initialized |-> TRUE, iterations |-> 0, alive |-> alive]

SendMessageToClient(c, message) == [c EXCEPT !.sent = Append(c.sent, message)]

\* processScene that replies without stopping the controller.
ProcessSceneReplyKeepsRunning(c, msg, alive) ==
  SendMessageToClient(
    [c EXCEPT !.lifeSystem = Update(c.lifeSystem, alive)],
    [command |-> msg.command,
     aliveCellsCount |-> alive,
     numberOfSimulationIterations |-> c.lifeSystem.iterations + 1,
     simulationStopped |-> (alive = 0)])

\* processScene with the generation it evaluates leaving alive cells alive.
ProcessSceneReply(c, msg, alive) ==
  SendMessageToClient(
    IF alive = 0 THEN Stop([c EXCEPT !.lifeSystem = Update(c.lifeSystem, alive)])
                 ELSE [c EXCEPT !.lifeSystem = Update(c.lifeSystem, alive)],
    [command |-> msg.command,
     aliveCellsCount |-> alive,
     numberOfSimulationIterations |-> c.lifeSystem.iterations + 1,
     simulationStopped |-> (alive = 0)])

\* LifeSystemWorkerController.processScene(msg)
ProcessScene(msg) ==
  /\ steps < MaxMessages
  /\ IF SystemRunning(controller) /\ CanUpdate(controller.lifeSystem)
     THEN \E alive \in 0..MaxAlive : controller' = ProcessSceneReply(controller, msg, alive)
     ELSE UNCHANGED controller
  /\ Did("processScene", "none")
  /\ UNCHANGED <<gameVars, startButton, gridScene>>

\* LifeSystemWorkerController.initializeSeeder(msg)
InitializeSeeder(msg, alive) ==
  /\ steps < MaxMessages
  /\ controller' =
       IF msg.promisedResponse
       THEN SendMessageToClient(
              [controller EXCEPT !.lifeSystem = InitializeSimulation(controller.lifeSystem, alive)],
              [command |-> msg.command,
               aliveCellsCount |-> alive,
               numberOfSimulationIterations |-> 0])
       ELSE [controller EXCEPT !.lifeSystem = InitializeSimulation(controller.lifeSystem, alive)]
  /\ Did("initializeSeeder", "none")
  /\ UNCHANGED <<gameVars, startButton, gridScene>>

\* The RESET command: lifeSystem.reset(config)
ControllerReset ==
  /\ steps < MaxMessages
  /\ controller' = [controller EXCEPT !.lifeSystem = LifeSystem]
  /\ Did("reset", "none")
  /\ UNCHANGED <<gameVars, startButton, gridScene>>

\* AbstractWorkerController.start()
ControllerStart ==
  /\ steps < MaxMessages
  /\ controller' = [controller EXCEPT !.running = TRUE]
  /\ Did("start", "none")
  /\ UNCHANGED <<gameVars, startButton, gridScene>>

\* The STOP command: AbstractWorkerController.stop()
ControllerStop ==
  /\ steps < MaxMessages
  /\ controller' = Stop(controller)
  /\ Did("stop", "none")
  /\ UNCHANGED <<gameVars, startButton, gridScene>>

InitController == InitWith(MakeConfig(0, 0))

NextController ==
  \/ ProcessScene([command |-> "PROCESS_CYCLE"])
  \/ \E promised \in BOOLEAN, alive \in 0..MaxAlive :
       InitializeSeeder([command |-> "SET_SEEDER", promisedResponse |-> promised], alive)
  \/ ControllerReset
  \/ ControllerStart
  \/ ControllerStop

SpecController == InitController /\ [][NextController]_vars

\* ------------------------------------------------------------------------
\* Entities, traits and the scenes of GridBuilder
\* ------------------------------------------------------------------------
MaxGrid == 3
MaxCellSize == 2

\* An object is its class and its own properties; an entity also has traits.
\* new Trait() and the subclasses of traits.js, with the properties they set.
Trait(class, props) == [class |-> class, props |-> props]

NoProps == [k \in {} |-> NULL]

\* new Entity()
Entity(class, props) == [class |-> class, props |-> props, traits |-> <<>>]

\* Entity.register(trait)
Register(entity, trait) == [entity EXCEPT !.traits = Append(entity.traits, trait)]

\* new Box(x, y, xx, yy, alive)
BoxEntity(x, y, xx, yy, alive) ==
  Entity("Box", [x |-> x, y |-> y, xx |-> xx, yy |-> yy, alive |-> alive])

\* new GridEntity(width, height, cWidth, cHeight)
GridEntity(width, height, cWidth, cHeight) ==
  Entity("GridEntity", [width |-> width, height |-> height,
                        cell |-> [width |-> cWidth, height |-> cHeight]])

\* toJSON of Entity and of Trait: this.className = this.constructor.name
WithClassName(object) ==
  [object EXCEPT !.props = [k \in DOMAIN object.props \cup {"className"} |->
                              IF k = "className" THEN object.class ELSE object.props[k]]]

\* JSON.stringify and JSON.parse of an entity: toJSON runs on the entity and
\* on each of its traits, and the literal holds their own properties.
ToJSON(entity) ==
  [props |-> WithClassName(entity).props,
   traits |-> [i \in 1..Len(entity.traits) |-> WithClassName(entity.traits[i]).props]]

\* The entity after JSON.stringify: toJSON left className on it and its traits.
Stringified(entity) ==
  [WithClassName(entity) EXCEPT
     !.traits = [i \in 1..Len(entity.traits) |-> WithClassName(entity.traits[i])]]

\* copyParams: every key of original but the skipped ones is assigned.
CopyParams(object, original, skipped) ==
  [object EXCEPT !.props = [k \in DOMAIN object.props \cup (DOMAIN original \ skipped) |->
                              IF k \in DOMAIN original \ skipped
                              THEN original[k] ELSE object.props[k]]]

\* TraitBuilderFactory.select(traitName): the class the builder constructs.
Select(traitName) ==
  IF traitName \in {"DarkThinLines", "FilledRectTrait", "FillStyle", "GridPattern",
                    "ProcessBoxAsRect"}
  THEN traitName
  ELSE "Trait"

\* Entity.initTraits(original, traitBuilderFactory), the factory being
\* TraitBuilderFactory.select.
InitTraits(entity, original) ==
  [entity EXCEPT !.traits =
     [i \in 1..Len(original.traits) |->
        CopyParams(Trait(Select(original.traits[i].className), NoProps),
                   original.traits[i], {"className"})]]

\* Box.buildInstance and GridEntity.buildInstance(params, TraitBuilderFactory.select),
\* by the class of the literal.
BuildInstance(params) ==
  InitTraits(
    CopyParams(IF params.props.className = "Box"
               THEN BoxEntity(NULL, NULL, NULL, NULL, NULL)
               ELSE GridEntity(NULL, NULL, NULL, NULL),
               params.props, {"className", "traits"}),
    params)

\* GridBuilder.buildGrid(cellWidth, cellHeight, gridWidth, gridHeight)
BuildGridScene(cellWidth, cellHeight, gridWidth, gridHeight) ==
  << Register(Register(Register(BoxEntity(0, 0, gridWidth, gridHeight, NULL),
                                Trait("ProcessBoxAsRect", NoProps)),
                       Trait("FillStyle", [fillStyle |-> "#444444"])),
              Trait("FilledRectTrait", NoProps)),
     Register(Register(GridEntity(gridWidth, gridHeight, cellWidth, cellHeight),
                       Trait("DarkThinLines", NoProps)),
              Trait("GridPattern", NoProps)) >>

\* GridBuilder.buildClearedArea(gridWidth, gridHeight)
BuildClearedAreaScene(gridWidth, gridHeight) ==
  << Register(Register(BoxEntity(0, 0, gridWidth, gridHeight, FALSE),
                       Trait("ProcessBoxAsRect", NoProps)),
              Trait("ClearArea", NoProps)) >>

BuildGrid(cellWidth, cellHeight, gridWidth, gridHeight) ==
  /\ lastOp.op = "constructor"
  /\ gridScene' = [gridScene EXCEPT
                     !.stack = BuildGridScene(cellWidth, cellHeight, gridWidth, gridHeight)]
  /\ Did("buildGrid", "none")
  /\ UNCHANGED <<gameVars, controller, startButton>>

BuildClearedArea(gridWidth, gridHeight) ==
  /\ lastOp.op = "constructor"
  /\ gridScene' = [gridScene EXCEPT !.stack = BuildClearedAreaScene(gridWidth, gridHeight)]
  /\ Did("buildClearedArea", "none")
  /\ UNCHANGED <<gameVars, controller, startButton>>

\* JSON.stringify(scene.getStack()) on the sending side, JSON.parse on the other.
SendScene ==
  /\ lastOp.op \in {"buildGrid", "buildClearedArea"}
  /\ gridScene' = [gridScene EXCEPT
                     !.stack = [i \in 1..Len(gridScene.stack) |-> Stringified(gridScene.stack[i])],
                     !.json = [i \in 1..Len(gridScene.stack) |-> ToJSON(gridScene.stack[i])]]
  /\ Did("toJSON", "none")
  /\ UNCHANGED <<gameVars, controller, startButton>>

\* The receiving side rebuilds every entity of the stack.
RebuildScene ==
  /\ lastOp.op = "toJSON"
  /\ gridScene' = [gridScene EXCEPT
                     !.rebuilt = [i \in 1..Len(gridScene.json) |->
                                    BuildInstance(gridScene.json[i])]]
  /\ Did("buildInstance", "none")
  /\ UNCHANGED <<gameVars, controller, startButton>>

InitScene == InitWith(MakeConfig(0, 0))

NextScene ==
  \/ \E cellWidth, cellHeight \in 1..MaxCellSize, gridWidth, gridHeight \in 1..MaxGrid :
       BuildGrid(cellWidth, cellHeight, gridWidth, gridHeight)
  \/ \E gridWidth, gridHeight \in 1..MaxGrid : BuildClearedArea(gridWidth, gridHeight)
  \/ SendScene
  \/ RebuildScene

SpecScene == InitScene /\ [][NextScene]_vars

\* ------------------------------------------------------------------------
\* The negative-quadrant harness: every coordinate is at most 0
\* ------------------------------------------------------------------------
Negative == ((-MaxRect)..0) \X ((-MaxRect)..0)

InitNegative == InitWith(MakeConfig(0, 0))

NegativeBuild ==
  /\ lastOp.op = "constructor"
  /\ \E coords \in Lists(Negative, MaxNegCells) : BuildTree(coords)

NegativeSearch ==
  /\ TreeBuilt
  /\ \E p \in Negative : TreeSearch(p[1], p[2])

NextNegative == NegativeBuild \/ NegativeSearch

SpecNegative == InitNegative /\ [][NextNegative]_vars

\* ------------------------------------------------------------------------
\* The seeds harness: a seeder that returns any list of cells
\* ------------------------------------------------------------------------
MaxSeedCoord == 2
MaxSeedCells == 2

\* The positions of a seed: the landscape and the row and column past it.
SeedCoords == (0..MaxSeedCoord) \X (0..MaxSeedCoord)

InitSeeds == InitWith(MakeConfig(MaxSeedCoord, MaxSeedCoord))

SeedsSeed ==
  /\ lastOp.op = "constructor"
  /\ \E grid \in ListsWithRepeats(SeedCoords, MaxSeedCells) : SeedWorldFromArray(grid)

SeedsEvaluate ==
  /\ lastOp.op \in {"seedWorld", "activateNext"}
  /\ steps < MaxSteps
  /\ \E evaluator \in Evaluators : EvaluateCells(evaluator)

SeedsActivate ==
  /\ lastOp.op = "evaluateCells"
  /\ steps < MaxSteps
  /\ ActivateNext

NextSeeds == SeedsSeed \/ SeedsEvaluate \/ SeedsActivate

SpecSeeds == InitSeeds /\ [][NextSeeds]_vars

\* ------------------------------------------------------------------------
\* StartButton
\* ------------------------------------------------------------------------
MaxClicks == 8

ButtonStates ==
  [IDLE |-> [name |-> "IDLE", buttonTitle |-> "Start", nextState |-> "RUNNING",
             event |-> "sim-event-start-requested"],
   RUNNING |-> [name |-> "RUNNING", buttonTitle |-> "Pause", nextState |-> "PAUSED",
                event |-> "sim-event-pause-requested"],
   PAUSED |-> [name |-> "PAUSED", buttonTitle |-> "Resume", nextState |-> "RUNNING",
               event |-> "sim-event-resume-requested"]]

\* A button whose PAUSED state leads back to IDLE.
NextStateRestarting(state) ==
  IF state = "PAUSED" THEN "IDLE" ELSE ButtonStates[state].nextState

\* ButtonStates[this.state].nextState
NextState(state) == ButtonStates[state].nextState

\* handleClick on a button whose state names one of ButtonStates.
Clicked(button) ==
  [button EXCEPT !.dispatched = Append(button.dispatched, ButtonStates[button.state].event),
                 !.state = NextState(button.state)]

\* The variables the button does not touch.
pageVars == <<nodes, idCount, cellHeap, cellCount, config, currentTree, nextTree, scene,
              drawingCells, boxScene, tree, clonedTree, input, result, pre,
              controller, gridScene>>

\* handleClick(): ButtonStates[undefined].event throws while state is not set.
HandleClick ==
  /\ steps < MaxClicks
  /\ startButton.enabled
  /\ IF startButton.state \in DOMAIN ButtonStates
     THEN startButton' = Clicked(startButton) /\ error' = NoError
     ELSE UNCHANGED startButton /\ error' = TypeError
  /\ Did("handleClick", "none")
  /\ UNCHANGED pageVars

\* The page sets the state attribute of the new element to IDLE.
SetStateIdle ==
  /\ steps < MaxClicks
  /\ startButton.state = "undefined"
  /\ startButton' = [startButton EXCEPT !.state = "IDLE"]
  /\ Did("state", "none")
  /\ UNCHANGED <<pageVars, error>>

\* The page sets the enabled property; a disabled button gets no click.
SetEnabled(enabled) ==
  /\ steps < MaxClicks
  /\ startButton.enabled # enabled
  /\ startButton' = [startButton EXCEPT !.enabled = enabled]
  /\ Did("enabled", "none")
  /\ UNCHANGED <<pageVars, error>>

InitButton == InitWith(MakeConfig(0, 0))

NextButton == HandleClick \/ SetStateIdle \/ (\E enabled \in BOOLEAN : SetEnabled(enabled))

SpecButton == InitButton /\ [][NextButton]_vars

\* ------------------------------------------------------------------------
\* Claims about the tree and its queries
\* ------------------------------------------------------------------------
IsNonNegative(coords) ==
  \A i \in 1..Len(coords) : coords[i][1] >= 0 /\ coords[i][2] >= 0

PositionIn(coords, p) == CHOOSE i \in 1..Len(coords) : coords[i] = p

\* C2: after index(L), for any list L of cells with unique integer
\* coordinates of either sign: index raises no error, aliveCellsCount() is
\* the length of L, search(c) for a cell c of L returns the node whose index
\* is the position of c in L, and search returns null for a coordinate that
\* is not in L.
C2_SearchFindsExactlyL ==
  lastOp.op = "index" =>
    /\ error = NoError
    /\ AliveCellsCount(tree) = Len(input)
    /\ result.op = "search" =>
         /\ result.error = NoError
         /\ IF result.args \in Range(input)
            THEN /\ result.node # NULL
                 /\ nodes[result.node].index = PositionIn(input, result.args) - 1
                 /\ Coord(cellHeap[tree.leaves[nodes[result.node].index + 1]])
                      = result.args
            ELSE result.node = NULL

FoundCoords == [i \in 1..Len(result.cells) |-> Coord(cellHeap[result.cells[i]])]

\* C3: on a tree indexed from cells with unique non-negative coordinates,
\* findAliveInArea(x, y, xx, yy) returns exactly the cells of L with
\* x <= row <= xx and y <= col <= yy, each once, also when the box lies on
\* a border of, or partly outside, the bounding box of L.
C3_RangeQueryIsExact ==
  (result.op = "findAliveInArea" /\ IsNonNegative(input)) =>
    /\ result.error = NoError
    /\ Range(result.cells) \subseteq Range(tree.leaves)
    /\ Range(FoundCoords) =
         {c \in Range(input) :
            /\ result.args[1] <= c[1] /\ c[1] <= result.args[3]
            /\ result.args[2] <= c[2] /\ c[2] <= result.args[4]}
    /\ Len(result.cells) = Cardinality(Range(FoundCoords))

C3_Witness ==
  /\ result.op = "findAliveInArea"
  /\ IsNonNegative(input)
  /\ Len(input) = MaxCells
  /\ Len(result.cells) = 2
  /\ result.args[1] < tree.boundary.rowMin
  /\ \E i \in 1..Len(result.cells) : FoundCoords[i][2] = result.args[4]
  /\ \E i \in 1..Len(result.cells) : FoundCoords[i][1] = result.args[3]

\* C7: on a tree indexed from cells with unique non-negative coordinates,
\* findAliveNeighbors(tree, row, col) is the number of cells of L other than
\* the one at (row, col) whose row and column differ from it by at most 1;
\* it lies between 0 and 8.
C7_NeighborsAreCounted ==
  (result.op = "findAliveNeighbors" /\ IsNonNegative(input)) =>
    /\ result.error = NoError
    /\ result.count =
         Cardinality({c \in Range(input) :
                        /\ c # result.args
                        /\ Abs(c[1] - result.args[1]) <= 1
                        /\ Abs(c[2] - result.args[2]) <= 1})
    /\ result.count \in 0..8

C7_Witness ==
  /\ result.op = "findAliveNeighbors"
  /\ IsNonNegative(input)
  /\ result.args \in Range(input)
  /\ Len(input) = MaxCells
  /\ result.count = Len(input) - 1

CoordsAgesStates(cells) ==
  [i \in 1..Len(cells) |->
     [coord |-> Coord(cells[i]), age |-> cells[i].age, state |-> cells[i].state]]

AliveAround(S, cfg, r, c) ==
  Cardinality({p \in S \cap Grid(cfg) :
                 /\ p # <<r, c>>
                 /\ Abs(p[1] - r) <= 1
                 /\ Abs(p[2] - c) <= 1})

ConwayStep(S, cfg) ==
  {p \in Grid(cfg) :
     \/ p \in S /\ AliveAround(S, cfg, p[1], p[2]) \in {2, 3}
     \/ p \notin S /\ AliveAround(S, cfg, p[1], p[2]) = 3}

\* The positions of the landscape at which a point lookup finds an alive cell.
FoundAlive(h, t, cfg) ==
  {p \in Grid(cfg) : FindCellIfAlive(h, t, p[1], p[2]).cell.state = ALIVE}

AfterStandardCycle ==
  /\ lastOp.op = "activateNext"
  /\ lastOp.prevOp = "evaluateCells"
  /\ lastOp.prevEvaluator = "CellEvaluator"
  /\ lastOp.prevError = NoError

\* C1: evaluateCells with the standard evaluator followed by activateNext
\* leaves currentTree with exactly the alive set Step(S), S being the alive
\* set of currentTree before the evaluation and Step the reference Conway
\* step on the bounded landscape; every cell is listed once and the point
\* lookups of the tree find exactly these positions.
C1_CycleIsConwayStep ==
  AfterStandardCycle =>
    /\ AliveSet(Heap, currentTree) = ConwayStep(pre.evaluated, config)
    /\ AliveCellsCount(currentTree) = Cardinality(ConwayStep(pre.evaluated, config))
    /\ FoundAlive(Heap, currentTree, config) = ConwayStep(pre.evaluated, config)

C1_Witness ==
  /\ AfterStandardCycle
  /\ \E p \in pre.evaluated :
       /\ p \notin AliveSet(Heap, currentTree)
       /\ AliveAround(pre.evaluated, config, p[1], p[2]) >= 4
  /\ \E p \in pre.evaluated :
       /\ p \notin AliveSet(Heap, currentTree)
       /\ AliveAround(pre.evaluated, config, p[1], p[2]) <= 1
  /\ \E p \in pre.evaluated : p \in AliveSet(Heap, currentTree)
  /\ \E p \in AliveSet(Heap, currentTree) : p \notin pre.evaluated

CoordsAndAges(cells) ==
  [i \in 1..Len(cells) |-> [coord |-> Coord(cells[i]), age |-> cells[i].age]]

WholeLandscape(h, t, cfg) ==
  QuadTreeFindAliveInArea(h, t, 0, 0, cfg.landscape.width, cfg.landscape.height)

\* C4: when nextTree is indexed, activateNext makes the alive cells of
\* currentTree (coordinates and ages, in order) those nextTree had just
\* before the call, a range query over the landscape finds exactly them, and
\* nextTree is left indexed with zero alive cells.
C4_ActivateNextSwaps ==
  (lastOp.op = "activateNext" /\ pre.next.root # NULL) =>
    /\ AliveList(Heap, currentTree) = CoordsAndAges(pre.next.leaves)
    /\ Indexed(currentTree)
    /\ {Coord(cellHeap[c]) : c \in Range(WholeLandscape(Heap, currentTree, config).cells)}
         = {Coord(pre.next.leaves[i]) : i \in 1..Len(pre.next.leaves)}
    /\ Indexed(nextTree)
    /\ AliveCellsCount(nextTree) = 0
    /\ WholeLandscape(Heap, nextTree, config).cells = <<>>

C4_Witness ==
  /\ lastOp.op = "activateNext"
  /\ pre.next.root # NULL
  /\ Len(pre.next.leaves) > 0
  /\ \E i \in 1..Len(pre.current.leaves) :
       \A j \in 1..Len(pre.next.leaves) :
         Coord(pre.current.leaves[i]) # Coord(pre.next.leaves[j])
  /\ \E j \in 1..Len(pre.next.leaves) : pre.next.leaves[j].age = 2

\* C5: evaluateCells, with any evaluator, leaves currentTree as it was: the
\* same leaves (coordinates, ages, order) and the same nodes, hence the same
\* answers to every query.
C5_EvaluateKeepsCurrent ==
  lastOp.op = "evaluateCells" => View(Heap, currentTree) = pre.current

C5_Witness ==
  /\ lastOp.op = "evaluateCells"
  /\ error = NoError
  /\ Len(currentTree.leaves) > 0
  /\ View(Heap, nextTree) # pre.next
  /\ AliveSet(Heap, nextTree) # AliveSet(Heap, currentTree)

\* C6: after seedWorld, called in any state, the alive cells of currentTree
\* are the list the seeder returned and nextTree has zero alive cells.
C6_SeedWorldResetsNext ==
  lastOp.op = "seedWorld" =>
    /\ [i \in 1..Len(currentTree.leaves) |-> Coord(cellHeap[currentTree.leaves[i]])]
         = input
    /\ AliveCellsCount(nextTree) = 0

\* C9: on the 5x5 landscape seeded with the block, the alive set of
\* currentTree is the block after each of the 100 cycles.
C9_BlockIsStill ==
  (input = Block /\ lastOp.op = "activateNext") =>
    /\ AliveSet(Heap, currentTree) = Range(Block)
    /\ AliveCellsCount(currentTree) = Len(Block)

C9_Witness ==
  /\ input = Block
  /\ lastOp.op = "activateNext"
  /\ Cycle = PatternCycles
  /\ AliveSet(Heap, currentTree) = Range(Block)

\* C10: on the 5x5 landscape seeded with the vertical line, after the k-th
\* cycle the alive set of currentTree is the horizontal line when k is odd
\* and the vertical line when k is even.
C10_BlinkerOscillates ==
  (input = InitBlinker /\ lastOp.op = "activateNext") =>
    /\ AliveSet(Heap, currentTree) =
         IF Cycle % 2 = 1 THEN Range(Blink) ELSE Range(InitBlinker)
    /\ AliveCellsCount(currentTree) = Len(InitBlinker)

C10_Witness ==
  /\ input = InitBlinker
  /\ lastOp.op = "activateNext"
  /\ Cycle = PatternCycles - 1
  /\ AliveSet(Heap, currentTree) = Range(Blink)

\* ------------------------------------------------------------------------
\* The empty world
\* ------------------------------------------------------------------------
EmptyIndexed(view) == view.root # NULL /\ view.leaves = <<>>

\* C11: when currentTree was indexed from an empty list, evaluateCells with
\* the standard evaluator raises no error on the zero-area root and leaves
\* nextTree with zero alive cells, and the activateNext that follows leaves
\* currentTree empty: an empty world stays empty cycle after cycle.
C11_EmptyStaysEmpty ==
  /\ (lastOp.op = "evaluateCells" /\ lastOp.evaluator = "CellEvaluator"
      /\ EmptyIndexed(pre.current)) =>
       /\ error = NoError
       /\ pre.current.nodes[pre.current.root].area = 0
       /\ ~pre.current.nodes[pre.current.root].subdivided
       /\ AliveCellsCount(nextTree) = 0
       /\ Indexed(nextTree)
  /\ (AfterStandardCycle /\ pre.evaluated = {}) =>
       /\ error = NoError
       /\ AliveCellsCount(currentTree) = 0
       /\ Indexed(currentTree)

C11_Witness ==
  /\ AfterStandardCycle
  /\ steps = 1 + 2 * MaxGenerations
  /\ input = <<>>
  /\ config.landscape.width = MaxWidth
  /\ config.landscape.height = MaxHeight
  /\ pre.evaluated = {}
  /\ AliveCellsCount(currentTree) = 0

\* ------------------------------------------------------------------------
\* C12
\* ------------------------------------------------------------------------
NullQueried == result.op \in {"search", "findAliveInArea"} /\ tree.root = NULL

\* C12: search and findAliveInArea raise their error, and return nothing,
\* whenever the root of the tree is null; the root is null on a tree that was
\* never indexed and on a tree cleared with clear() and not indexed again;
\* and the failing query leaves the tree, its nodes and its cells as they were.
C12_NullRootQueriesThrow ==
  /\ [](/\ (NullQueried /\ result.op = "search") =>
              result.error = SearchNullError /\ result.node = NULL
        /\ (NullQueried /\ result.op = "findAliveInArea") =>
              result.error = RangeNullError /\ result.cells = <<>>
        /\ (result.op \in {"search", "findAliveInArea"}
            /\ lastOp.op \in {"constructor", "clear"}) => tree.root = NULL)
  /\ [][(result'.op \in {"search", "findAliveInArea"}
         /\ result'.error \in {SearchNullError, RangeNullError})
        => UNCHANGED <<tree, nodes, idCount, cellHeap, cellCount, clonedTree>>]_vars

C12_Witness ==
  /\ NullQueried
  /\ lastOp.op = "clear"
  /\ pre.tree.leaves # <<>>
  /\ result.op = "findAliveInArea"
  /\ result.error = RangeNullError

\* ------------------------------------------------------------------------
\* C13
\* ------------------------------------------------------------------------
\* getCells(): the orchestrator's cell list.
GetCells == drawingCells

\* C13: after clear() on the orchestrator, whatever was toggled, activated,
\* staged or cleared before, currentTree and nextTree both have zero alive
\* cells and getCells() is empty.
C13_ClearEmptiesEverything ==
  lastOp.op = "clear" =>
    /\ error = NoError
    /\ AliveCellsCount(currentTree) = 0
    /\ AliveCellsCount(nextTree) = 0
    /\ Len(GetCells) = 0

C13_Witness ==
  /\ lastOp.op = "clear"
  /\ lastOp.prevOp = "toggleCell"
  /\ Len(pre.current.leaves) = MaxDrawSteps - 1
  /\ AliveCellsCount(currentTree) = 0
  /\ Len(GetCells) = 0

\* ------------------------------------------------------------------------
\* C14
\* ------------------------------------------------------------------------
BoxOf(node) ==
  Box(node.rect.x, node.rect.y, node.rect.xx, node.rect.yy, node.index # NULL)

\* boxes holds exactly one box for every node under root, with the node's
\* rectangle and an alive flag that tells whether the node has a leaf index.
OneBoxPerNode(boxes, root) ==
  /\ Len(boxes) = Cardinality(NodesUnder(Heap, root))
  /\ \A n \in NodesUnder(Heap, root) :
       Cardinality({i \in 1..Len(boxes) :
                      [boxes[i] EXCEPT !.traits = <<>>] = BoxOf(nodes[n])})
         = Cardinality({m \in NodesUnder(Heap, root) : BoxOf(nodes[m]) = BoxOf(nodes[n])})

\* C14: stageStorage(scene, display) with display false leaves the scene and
\* both trees as they were; with display true it pushes to the scene one
\* array holding exactly one box per node of the current tree, each with the
\* node's rectangle and an alive flag that is true iff the node has a leaf
\* index.
C14_StageStorageBoxes ==
  lastOp.op = "stageStorage" =>
    /\ View(Heap, currentTree) = pre.current
    /\ View(Heap, nextTree) = pre.next
    /\ result.args = <<FALSE>> => (error = NoError /\ boxScene = <<>>)
    /\ result.args = <<TRUE>> =>
         /\ error = NoError
         /\ Len(boxScene) = 1
         /\ OneBoxPerNode(boxScene[1], currentTree.root)

\* ------------------------------------------------------------------------
\* C15
\* ------------------------------------------------------------------------
\* aliveCellsCount() and getCells() of the orchestrator: the count and the
\* list of the current alive cells.
GameAliveCellsCount == AliveCellsCount(currentTree)

GameGetCells == Leaves(Heap, currentTree)

LandscapeArea == config.landscape.width * config.landscape.height

UnitSquare(p) == [x |-> p[1], y |-> p[2], xx |-> p[1] + 1, yy |-> p[2] + 1]

IsCellLeaf(node, coords) ==
  /\ ~node.subdivided
  /\ node.area = 1
  /\ \E i \in 1..Len(coords) : node.rect = UnitSquare(coords[i])

\* C16: after index(L), L having non-negative coordinates, a node of the tree
\* carries a leaf index iff it is a non-subdivided node of area 1 whose
\* rectangle is the unit square of a cell of L; the index is then a valid
\* position of leaves and the cell there lies at that square; subdivided
\* nodes and nodes of any other area carry no index.
C16_LeafIndexOnlyOnCellSquares ==
  (lastOp.op = "index" /\ result.op = "none" /\ IsNonNegative(input)) =>
    /\ error = NoError
    /\ \A n \in NodesUnder(Heap, tree.root) :
         /\ nodes[n].index # NULL <=> IsCellLeaf(nodes[n], input)
         /\ nodes[n].index # NULL =>
              /\ ValidIndex(tree.leaves, nodes[n].index)
              /\ UnitSquare(Coord(cellHeap[tree.leaves[nodes[n].index + 1]]))
                   = nodes[n].rect
         /\ (nodes[n].subdivided \/ nodes[n].area # 1) => nodes[n].index = NULL

C16_Witness ==
  /\ lastOp.op = "index"
  /\ result.op = "none"
  /\ IsNonNegative(input)
  /\ Len(input) = MaxCells
  /\ nodes[tree.root].rect.xx - nodes[tree.root].rect.x = MaxCoord + 1
  /\ \E n, m, k \in NodesUnder(Heap, tree.root) :
       /\ nodes[n].index = MaxCells - 1
       /\ nodes[m].area = 1 /\ nodes[m].index = NULL
       /\ nodes[k].area = 0

\* ------------------------------------------------------------------------
\* C17
\* ------------------------------------------------------------------------
SplitPoint(rect) ==
  [p |-> rect.x + CeilHalf(rect.xx - rect.x),
   q |-> rect.y + CeilHalf(rect.yy - rect.y)]

\* The four children of node are the quadrants of its rectangle around (p, q).
SplitsAt(node, p, q) ==
  /\ node.subdivided
  /\ nodes[node.upperLeft].rect = [x |-> node.rect.x, y |-> node.rect.y, xx |-> p, yy |-> q]
  /\ nodes[node.upperRight].rect = [x |-> p, y |-> node.rect.y, xx |-> node.rect.xx, yy |-> q]
  /\ nodes[node.lowerLeft].rect = [x |-> node.rect.x, y |-> q, xx |-> p, yy |-> node.rect.yy]
  /\ nodes[node.lowerRight].rect = [x |-> p, y |-> q, xx |-> node.rect.xx, yy |-> node.rect.yy]

\* C17: for every rectangle with integer corners x <= xx and y <= yy, of any
\* sign, subdivide splits at p = x + ceil((xx - x) / 2), q = y + ceil((yy - y) / 2):
\* p lies in x..xx and q in y..yy, the children are the four quadrants around
\* (p, q), which cover the parent and meet only on the lines x = p and y = q,
\* and the upper and left quadrants are at least as wide and as tall as the
\* lower and right ones.
C17_SubdivideSplitsAtCeilingMidpoint ==
  lastOp.op = "subdivide" =>
    /\ nodes[tree.root].rect.x <= SplitPoint(nodes[tree.root].rect).p
    /\ SplitPoint(nodes[tree.root].rect).p <= nodes[tree.root].rect.xx
    /\ nodes[tree.root].rect.y <= SplitPoint(nodes[tree.root].rect).q
    /\ SplitPoint(nodes[tree.root].rect).q <= nodes[tree.root].rect.yy
    /\ SplitsAt(nodes[tree.root], SplitPoint(nodes[tree.root].rect).p,
                SplitPoint(nodes[tree.root].rect).q)
    /\ nodes[nodes[tree.root].upperLeft].rect.xx - nodes[tree.root].rect.x
         >= nodes[tree.root].rect.xx - nodes[nodes[tree.root].upperLeft].rect.xx
    /\ nodes[nodes[tree.root].upperLeft].rect.yy - nodes[tree.root].rect.y
         >= nodes[tree.root].rect.yy - nodes[nodes[tree.root].upperLeft].rect.yy

\* ------------------------------------------------------------------------
\* C18
\* ------------------------------------------------------------------------
UnitCells == {Cell(p[1], p[2], 0, ALIVE) : p \in BoxCoords \X BoxCoords}

\* The children of node whose rectangle contains the cell.
ContainingChildren(node, cell) ==
  {c \in Range(NodeChildren(node)) : ContainsRect(nodes[c], cell)}

\* The cells of the list at the position of cell have their leaf under child.
PlacedUnder(child, cell) ==
  \A i \in 1..Len(input) :
    input[i] = Coord(cell) =>
      \E m \in NodesUnder(Heap, child) : nodes[m].index = i - 1

\* C18: in a tree indexed from cells with non-negative coordinates, at every
\* subdivided node and for every unit cell the node contains, the child that
\* search selects from the xx and yy of the upperLeft child is the one and
\* only child whose rectangle contains the cell, and the leaf addCell set for
\* a cell of the list lies under that child.
C18_SearchBranchIsContainingChild ==
  (TreeBuilt /\ IsNonNegative(input)) =>
    \A n \in NodesUnder(Heap, tree.root) :
      nodes[n].subdivided =>
        \A cell \in UnitCells :
          ContainsRect(nodes[n], cell) =>
            /\ ContainingChildren(nodes[n], cell) = {SearchBranch(Heap, nodes[n], cell)}
            /\ PlacedUnder(SearchBranch(Heap, nodes[n], cell), cell)

\* A root three wide and one high, split into a two-wide and a one-wide
\* half with zero-height lower children, and a cell in each half.
C18_Witness ==
  /\ lastOp.op = "index"
  /\ result.op = "none"
  /\ error = NoError
  /\ input = <<<<0, 0>>, <<MaxCoord, 0>>>>
  /\ nodes[tree.root].subdivided
  /\ nodes[nodes[tree.root].lowerLeft].area = 0
  /\ SearchBranch(Heap, nodes[tree.root], Cell(MaxCoord, 0, 0, ALIVE))
       = nodes[tree.root].upperRight
  /\ nodes[nodes[tree.root].upperLeft].subdivided

\* ------------------------------------------------------------------------
\* C19
\* ------------------------------------------------------------------------
\* The last position of the list that holds the coordinates p.
LastAt(coords, p) ==
  CHOOSE i \in 1..Len(coords) :
    coords[i] = p /\ \A j \in (i + 1)..Len(coords) : coords[j] # p

\* C19: when the list given to index holds a position more than once, no cell
\* is removed (aliveCellsCount() counts them all, in the order given), the
\* leaf node of each position carries the index of the last cell of the list
\* at that position, and search and findAliveInArea return that last cell and
\* no other cell of the position.
C19_LastDuplicateWins ==
  lastOp.op = "index" =>
    /\ error = NoError
    /\ AliveCellsCount(tree) = Len(input)
    /\ [i \in 1..Len(tree.leaves) |-> Coord(cellHeap[tree.leaves[i]])] = input
    /\ \A p \in Range(input) :
         /\ QuadTreeSearch(Heap, tree, Cell(p[1], p[2], 0, ALIVE)).node # NULL
         /\ nodes[QuadTreeSearch(Heap, tree, Cell(p[1], p[2], 0, ALIVE)).node].index
              = LastAt(input, p) - 1
         /\ \A n \in NodesUnder(Heap, tree.root) :
              nodes[n].rect = UnitSquare(p) => nodes[n].index = LastAt(input, p) - 1
    /\ (result.op = "search" /\ <<result.args[1], result.args[2]>> \in Range(input)) =>
         /\ result.node # NULL
         /\ nodes[result.node].index = LastAt(input, <<result.args[1], result.args[2]>>) - 1
    /\ result.op = "findAliveInArea" =>
         /\ result.error = NoError
         /\ Range(result.cells) =
              {tree.leaves[LastAt(input, p)] :
                 p \in {c \in Range(input) :
                          /\ result.args[1] <= c[1] /\ c[1] <= result.args[3]
                          /\ result.args[2] <= c[2] /\ c[2] <= result.args[4]}}
         /\ Len(result.cells) = Cardinality(Range(result.cells))

C19_Witness ==
  /\ lastOp.op = "index"
  /\ Len(input) = MaxDupCells
  /\ input[1] = input[MaxDupCells]
  /\ input[1] # input[2]
  /\ result.op = "findAliveInArea"
  /\ Len(result.cells) = 2
  /\ tree.leaves[MaxDupCells] \in Range(result.cells)
  /\ tree.leaves[1] \notin Range(result.cells)

\* ------------------------------------------------------------------------
\* C20
\* ------------------------------------------------------------------------
MinOf(S) == CHOOSE m \in S : \A k \in S : m <= k

MaxOf(S) == CHOOSE m \in S : \A k \in S : m >= k

Rows(coords) == {coords[i][1] : i \in 1..Len(coords)}

Cols(coords) == {coords[i][2] : i \in 1..Len(coords)}

\* C20: index() makes the root the rectangle (minimum row, minimum column,
\* maximum row + 1, maximum column + 1) of the cells of leaves; with no leaves the root is the zero-area box (0, 0, 0, 0), it is
\* not subdivided, it has no leaf index and no error is raised.
C20_RootIsBoundingBox ==
  (lastOp.op = "index" /\ result.op = "none") =>
    /\ tree.root # NULL
    /\ tree.boundary = [rowMin |-> nodes[tree.root].rect.x,
                        colMin |-> nodes[tree.root].rect.y,
                        rowMax |-> nodes[tree.root].rect.xx,
                        colMax |-> nodes[tree.root].rect.yy]
    /\ input # <<>> =>
         nodes[tree.root].rect =
           [x |-> MinOf(Rows(input)), y |-> MinOf(Cols(input)),
            xx |-> MaxOf(Rows(input)) + 1, yy |-> MaxOf(Cols(input)) + 1]
    /\ input = <<>> =>
         /\ error = NoError
         /\ nodes[tree.root].rect = [x |-> 0, y |-> 0, xx |-> 0, yy |-> 0]
         /\ nodes[tree.root].area = 0
         /\ ~nodes[tree.root].subdivided
         /\ nodes[tree.root].index = NULL
         /\ NodesUnder(Heap, tree.root) = {tree.root}

\* Two cells on the anti-diagonal: no cell lies at a corner of the box.
C20_Witness ==
  /\ lastOp.op = "index"
  /\ result.op = "none"
  /\ input = <<<<0, MaxCoord>>, <<MaxCoord, 0>>>>
  /\ nodes[tree.root].rect = [x |-> 0, y |-> 0,
                              xx |-> MaxCoord + 1, yy |-> MaxCoord + 1]

\* ------------------------------------------------------------------------
\* C21
\* ------------------------------------------------------------------------
\* The ages the cells at position p have in a list of cells.
AgesAt(cells, p) == {cells[j].age : j \in {k \in 1..Len(cells) : Coord(cells[k]) = p}}

\* C21: after evaluateCells with the standard evaluator and activateNext, a
\* cell of currentTree that was alive at its position before the cycle has
\* the age it had plus 1, a cell at a position that was not alive has age 1
\* (a previous age of 0), and the clone made by activateNext has the ages
\* evaluateCells gave; so ages lie between 1 and 1 plus the number of cycles,
\* and a cell as old as that was seeded and has lived through every cycle.
C21_AgeGrowsByOne ==
  (AfterStandardCycle /\ error = NoError) =>
    /\ CoordsAndAges(Leaves(Heap, currentTree)) = CoordsAndAges(pre.next.leaves)
    /\ \A i \in 1..Len(currentTree.leaves) :
         /\ AgesAt(pre.current.leaves, Coord(cellHeap[currentTree.leaves[i]]))
              \subseteq {cellHeap[currentTree.leaves[i]].age - 1}
         /\ AgesAt(pre.current.leaves, Coord(cellHeap[currentTree.leaves[i]])) = {}
              => cellHeap[currentTree.leaves[i]].age = 1
         /\ cellHeap[currentTree.leaves[i]].age \in 1..(1 + Cycle)
         /\ cellHeap[currentTree.leaves[i]].age = 1 + Cycle
              => Coord(cellHeap[currentTree.leaves[i]]) \in Range(input)

\* A cell seeded with age 1 that survived every cycle, next to a newborn.
C21_Witness ==
  /\ AfterStandardCycle
  /\ Cycle = MaxGenerations
  /\ \E i, j \in 1..Len(currentTree.leaves) :
       /\ cellHeap[currentTree.leaves[i]].age = 1 + MaxGenerations
       /\ cellHeap[currentTree.leaves[j]].age = 1

\* ------------------------------------------------------------------------
\* C22
\* ------------------------------------------------------------------------
\* The positions of coords whose place in the list is still a place of leaves.
StillListed(coords, leaves) == {coords[i] : i \in 1..Len(leaves)}

\* C22: when the index of a leaf node is null or is no position of the
\* current leaves (leaves was shortened after index), findCellIfAlive returns
\* the dead sentinel for that position and findAliveInArea leaves the node
\* out of its result, the cells whose index is still valid being found as
\* before; neither raises an error.
C22_StaleIndexIsNotFound ==
  lastOp.op \in {"index", "shrink"} =>
    /\ \A p \in DupCoords :
         /\ FindCellIfAlive(Heap, tree, p[1], p[2]).error = NoError
         /\ p \notin StillListed(input, tree.leaves) =>
              FindCellIfAlive(Heap, tree, p[1], p[2]).cell = DeadCell
         /\ p \in StillListed(input, tree.leaves) =>
              /\ FindCellIfAlive(Heap, tree, p[1], p[2]).cell.state = ALIVE
              /\ Coord(FindCellIfAlive(Heap, tree, p[1], p[2]).cell) = p
    /\ result.op = "findAliveInArea" =>
         /\ result.error = NoError
         /\ {Coord(cellHeap[c]) : c \in Range(result.cells)} =
              {p \in StillListed(input, tree.leaves) :
                 p[1] <= result.args[3] /\ p[2] <= result.args[4]}
         /\ Len(result.cells) = Cardinality(Range(result.cells))

\* A leaf whose index is past the end of leaves, one whose index is valid and
\* a unit node without index, all inside the rectangle of the query.
C22_Witness ==
  /\ lastOp.op = "shrink"
  /\ Len(input) = MaxDupCells
  /\ Len(tree.leaves) = 1
  /\ result.op = "findAliveInArea"
  /\ result.args = <<0, 0, MaxDupCoord, MaxDupCoord>>
  /\ Len(result.cells) = 1
  /\ \E n, m \in NodesUnder(Heap, tree.root) :
       /\ nodes[n].index = MaxDupCells - 1
       /\ nodes[m].area = 1 /\ nodes[m].index = NULL

\* ------------------------------------------------------------------------
\* C23
\* ------------------------------------------------------------------------
Iterations == controller.lifeSystem.iterations

LastSent == controller.sent[Len(controller.sent)]

\* C23: processScene runs at most one update per call, and only when the
\* controller is running and lifeSystem.canUpdate() holds; otherwise it sends
\* nothing and changes nothing. When the update leaves no cell alive the
\* controller is stopped and the reply carries simulationStopped = true
\* (false when cells are left), so no generation is evaluated while the
\* controller is stopped, and only start makes it run again.
C23_ProcessSceneStopsDeadWorld ==
  [][/\ lastOp'.op = "processScene" =>
          /\ Iterations' \in {Iterations, Iterations + 1}
          /\ ~(SystemRunning(controller) /\ CanUpdate(controller.lifeSystem))
               => controller' = controller
          /\ (SystemRunning(controller) /\ CanUpdate(controller.lifeSystem)) =>
               /\ Iterations' = Iterations + 1
               /\ Len(controller'.sent) = Len(controller.sent) + 1
               /\ SubSeq(controller'.sent, 1, Len(controller.sent)) = controller.sent
               /\ LastSent'.aliveCellsCount = controller'.lifeSystem.alive
               /\ LastSent'.numberOfSimulationIterations = Iterations'
               /\ LastSent'.simulationStopped = (controller'.lifeSystem.alive = 0)
               /\ SystemRunning(controller') = (controller'.lifeSystem.alive # 0)
     /\ ~SystemRunning(controller) => Iterations' <= Iterations
     /\ (SystemRunning(controller') /\ ~SystemRunning(controller)) => lastOp'.op = "start"
    ]_vars

\* A running controller whose world died: the reply reports the stop, and a
\* later processScene found the controller stopped.
C23_Witness ==
  /\ lastOp.op = "processScene"
  /\ lastOp.prevOp = "processScene"
  /\ controller.sent # <<>>
  /\ LastSent.command = "PROCESS_CYCLE"
  /\ LastSent.simulationStopped
  /\ Len(controller.sent) = 1
  /\ Iterations = 1
  /\ ~SystemRunning(controller)

\* ------------------------------------------------------------------------
\* C24
\* ------------------------------------------------------------------------
\* The parameters of an entity or trait: its own properties but className.
Params(object) == [k \in DOMAIN object.props \ {"className"} |-> object.props[k]]

ClassNames(entity) == [i \in 1..Len(entity.traits) |-> entity.traits[i].class]

\* C24: every entity of a scene of GridBuilder, serialised with toJSON and
\* rebuilt with buildInstance and TraitBuilderFactory.select, has the same
\* parameters and as many traits, of the same classes in the same order.
C24_RebuiltEntityHasSameTraits ==
  lastOp.op = "buildInstance" =>
    /\ Len(gridScene.rebuilt) = Len(gridScene.stack)
    /\ \A i \in 1..Len(gridScene.stack) :
         /\ Params(gridScene.rebuilt[i]) = Params(gridScene.stack[i])
         /\ Len(gridScene.rebuilt[i].traits) = Len(gridScene.stack[i].traits)
         /\ ClassNames(gridScene.rebuilt[i]) = ClassNames(gridScene.stack[i])

\* The scenes of buildGrid do come back whole, the parameters of the traits
\* included: every trait they register has a case in select.
C24_RebuiltGridHasSameTraits ==
  (lastOp.op = "buildInstance" /\ lastOp.prevOp = "toJSON" /\ Len(gridScene.stack) = 2) =>
    \A i \in 1..Len(gridScene.stack) :
       /\ gridScene.rebuilt[i].class = gridScene.stack[i].class
       /\ Params(gridScene.rebuilt[i]) = Params(gridScene.stack[i])
       /\ ClassNames(gridScene.rebuilt[i]) = ClassNames(gridScene.stack[i])
       /\ \A j \in 1..Len(gridScene.stack[i].traits) :
            Params(gridScene.rebuilt[i].traits[j]) = Params(gridScene.stack[i].traits[j])

\* ------------------------------------------------------------------------
\* C25
\* ------------------------------------------------------------------------
\* C25: index(L) terminates for every finite list L of cells with integer
\* coordinates, negative ones included: addCell reaches nodes of area at most
\* minimumCellSize after finitely many subdivisions, so the recursion never
\* runs out of stack.
C25_IndexTerminates ==
  lastOp.op = "index" => error # StackOverflow

\* ------------------------------------------------------------------------
\* C26
\* ------------------------------------------------------------------------
\* How many times p was toggled since construction or the last clear().
Toggles(p) == Cardinality({i \in 1..Len(input) : input[i] = p})

DrawCoords == (0..MaxDrawCoord) \X (0..MaxDrawCoord)

\* C26: in DrawingStateManager, after any sequence of toggleCell(x, y) with
\* non-negative coordinates and clear(), a position is alive in currentTree
\* iff it was toggled an odd number of times since the last clear(); cells
\* has no two entries with the same coordinates and holds the positions of
\* the leaves of currentTree in the same order; nextTree has no alive cell.
C26_AliveIffToggledOddly ==
  /\ error = NoError
  /\ \A p \in DrawCoords :
       /\ FindCellIfAlive(Heap, currentTree, p[1], p[2]).error = NoError
       /\ (FindCellIfAlive(Heap, currentTree, p[1], p[2]).cell.state = ALIVE)
            <=> (Toggles(p) % 2 = 1)
       /\ (p \in AliveSet(Heap, currentTree)) <=> (Toggles(p) % 2 = 1)
  /\ \A i, j \in 1..Len(drawingCells) :
       Coord(cellHeap[drawingCells[i]]) = Coord(cellHeap[drawingCells[j]]) => i = j
  /\ [i \in 1..Len(drawingCells) |-> Coord(cellHeap[drawingCells[i]])]
       = [i \in 1..Len(currentTree.leaves) |-> Coord(cellHeap[currentTree.leaves[i]])]
  /\ AliveCellsCount(nextTree) = 0

\* A position toggled twice is dead again while one toggled once, after it,
\* is alive and is the only entry of cells.
C26_Witness ==
  /\ lastOp.op = "toggleCell"
  /\ Len(input) = 3
  /\ input[1] = input[3]
  /\ input[1] # input[2]
  /\ Len(drawingCells) = 1
  /\ Coord(cellHeap[drawingCells[1]]) = input[2]
  /\ AliveSet(Heap, currentTree) = {input[2]}

\* ------------------------------------------------------------------------
\* C27
\* ------------------------------------------------------------------------
\* evaluateCells ran twice in a row with the same evaluator; pre is the
\* state the first call left, lastOp.prevError how it ended.
EvaluatedTwice ==
  /\ lastOp.op = "evaluateCells"
  /\ lastOp.prevOp = "evaluateCells"
  /\ lastOp.evaluator = lastOp.prevEvaluator

\* C27: a second evaluateCells with the same evaluator and no activateNext in
\* between leaves nextTree with the alive cells the first call left (the
\* cells of the first call are replaced, not added to) and leaves
\* currentTree as it was.
C27_EvaluateTwiceIsEvaluateOnce ==
  EvaluatedTwice =>
    /\ error = lastOp.prevError
    /\ CoordsAndAges(Leaves(Heap, nextTree)) = CoordsAndAges(pre.next.leaves)
    /\ AliveSet(Heap, nextTree) = {Coord(pre.next.leaves[i]) : i \in 1..Len(pre.next.leaves)}
    /\ AliveCellsCount(nextTree) = Len(pre.next.leaves)
    /\ View(Heap, currentTree) = pre.current

\* The second call on a seeded world whose next generation has cells and
\* differs from the current one.
C27_Witness ==
  /\ EvaluatedTwice
  /\ error = NoError
  /\ lastOp.evaluator = "CellEvaluator"
  /\ AliveCellsCount(nextTree) > 0
  /\ AliveSet(Heap, nextTree) # AliveSet(Heap, currentTree)

\* ------------------------------------------------------------------------
\* C28
\* ------------------------------------------------------------------------
\* evaluateCells was the first call on the new GameManager.
EvaluatedUnseeded == lastOp.op = "evaluateCells" /\ lastOp.prevOp = "constructor"

\* C28: on a newly constructed GameManager, before any seedWorld or
\* activateNext, evaluateCells on a landscape with at least one position
\* fails with the error of a range query on a null root and leaves
\* currentTree and nextTree as they were, both unindexed with zero alive
\* cells; no next generation is produced or pushed to the scene.
C28_EvaluateUnseededFails ==
  (EvaluatedUnseeded /\ LandscapeArea >= 1) =>
    /\ error = RangeNullError
    /\ currentTree = QuadTreeEmpty
    /\ nextTree = QuadTreeEmpty
    /\ View(Heap, currentTree) = pre.current
    /\ View(Heap, nextTree) = pre.next
    /\ ~Indexed(currentTree) /\ ~Indexed(nextTree)
    /\ AliveCellsCount(currentTree) = 0 /\ AliveCellsCount(nextTree) = 0
    /\ scene = <<>>
    /\ nodes = <<>> /\ cellHeap = <<>>

\* The failed call on the largest landscape of the harness.
C28_Witness ==
  /\ EvaluatedUnseeded
  /\ lastOp.evaluator = "CellEvaluator"
  /\ LandscapeArea = GameArea
  /\ error # NoError

\* ------------------------------------------------------------------------
\* C29
\* ------------------------------------------------------------------------
\* The place of a cell in the scan of evaluateCells: row outer, col inner.
ScanPlace(cell) == cell.location.row * config.landscape.height + cell.location.col

InLandscape(cell) ==
  /\ cell.location.row \in 0..(config.landscape.width - 1)
  /\ cell.location.col \in 0..(config.landscape.height - 1)

\* The seed has a cell twice and a cell outside the landscape.
BadSeed ==
  /\ \E i, j \in 1..Len(input) : i # j /\ input[i] = input[j]
  /\ \E i \in 1..Len(input) :
       input[i][1] \notin 0..(config.landscape.width - 1)

\* C29: after every evaluateCells, whatever the seed held (duplicates and
\* cells outside the landscape included) and whichever evaluator ran, the
\* cells of nextTree have pairwise distinct coordinates inside
\* [0,width) x [0,height) and are listed in row-major order; so after the
\* seed every generation's aliveCellsCount() is the number of distinct alive
\* positions and at most width * height.
C29_NextCellsDistinctInsideOrdered ==
  /\ lastOp.op = "evaluateCells" =>
       /\ error = NoError
       /\ \A i \in 1..Len(nextTree.leaves) : InLandscape(cellHeap[nextTree.leaves[i]])
       /\ \A i, j \in 1..Len(nextTree.leaves) :
            i < j => ScanPlace(cellHeap[nextTree.leaves[i]])
                       < ScanPlace(cellHeap[nextTree.leaves[j]])
       /\ AliveCellsCount(nextTree) = Cardinality(AliveSet(Heap, nextTree))
       /\ AliveCellsCount(nextTree) <= LandscapeArea
  /\ lastOp.op = "activateNext" =>
       /\ AliveCellsCount(currentTree) = Cardinality(AliveSet(Heap, currentTree))
       /\ AliveCellsCount(currentTree) <= LandscapeArea
       /\ \A i \in 1..Len(currentTree.leaves) : InLandscape(cellHeap[currentTree.leaves[i]])

\* A seed with a duplicate and an outside cell, evaluated to a generation
\* that has cells, then activated.
C29_Witness ==
  /\ BadSeed
  /\ lastOp.op = "activateNext"
  /\ error = NoError
  /\ AliveCellsCount(pre.current) # Cardinality({Coord(pre.current.leaves[i]) :
                                                   i \in 1..Len(pre.current.leaves)})
  /\ AliveCellsCount(currentTree) > 0

\* ------------------------------------------------------------------------
\* C30
\* ------------------------------------------------------------------------
Dispatched == startButton.dispatched

\* The event the i-th click from IDLE dispatches.
EventOfClick(i) ==
  IF i = 1 THEN "sim-event-start-requested"
  ELSE IF i % 2 = 0 THEN "sim-event-pause-requested"
  ELSE "sim-event-resume-requested"

\* The state the button holds after n clicks from IDLE.
StateAfterClicks(n) ==
  IF n = 0 THEN "IDLE" ELSE IF n % 2 = 1 THEN "RUNNING" ELSE "PAUSED"

\* C30: from state IDLE, each click dispatches the event of the state held
\* before the click and then moves IDLE to RUNNING, RUNNING to PAUSED and
\* PAUSED to RUNNING; so over any sequence of clicks the start event is
\* dispatched once, by the first click, pause and resume alternate strictly
\* after it, and IDLE is never entered again by clicking.
C30_ClicksCycleRunningPaused ==
  /\ [](startButton.state # "undefined" =>
          /\ startButton.state = StateAfterClicks(Len(Dispatched))
          /\ \A i \in 1..Len(Dispatched) : Dispatched[i] = EventOfClick(i))
  /\ [][(startButton.state # "undefined" /\ lastOp'.op = "handleClick") =>
          /\ Dispatched' = Append(Dispatched, ButtonStates[startButton.state].event)
          /\ startButton.state = "IDLE" => startButton'.state = "RUNNING"
          /\ startButton.state = "RUNNING" => startButton'.state = "PAUSED"
          /\ startButton.state = "PAUSED" => startButton'.state = "RUNNING"
          /\ startButton'.state # "IDLE"
          /\ error' = NoError]_vars

\* Four clicks from IDLE: start, pause, resume, pause.
C30_Witness ==
  /\ lastOp.op = "handleClick"
  /\ Dispatched = <<"sim-event-start-requested", "sim-event-pause-requested",
                    "sim-event-resume-requested", "sim-event-pause-requested">>
  /\ startButton.state = "PAUSED"

====
